---- MODULE Spec2Model ----
(***************************************************************************)
(* Artifact pipeline of the XAI benchmarking backend: dataset processing,  *)
(* model training and explanation generation, as background jobs that      *)
(* read and write the metadata store (Supabase tables), the object store   *)
(* (R2) and local scratch directories.                                     *)
(*                                                                         *)
(* Fault model: the faults the code itself anticipates.  An object-store   *)
(* call returns False, a metadata-store write raises inside the client     *)
(* wrapper (which logs and returns None/False), any processing step may    *)
(* raise, and a dataset processing job may die silently between two steps. *)
(* Metadata-store reads and shutil.rmtree are taken to succeed.            *)
(***************************************************************************)
EXTENDS Integers, Sequences, FiniteSets, TLC

(***************************************************************************)
(* Bounds                                                                  *)
(***************************************************************************)
\* total number of job invocations (each gets a fresh uuid)
MaxInvocations == 3

(***************************************************************************)
(* Inputs                                                                  *)
(***************************************************************************)
\* dataset ids a caller may pass
DatasetIds == {"d1", "dx"}
\* ids that have a configuration in the dataset registry
Registry == {"d1"}
\* background job slots of the dataset processing service
ProcJobs == {"p1", "p2"}
\* the three split files written by process_dataset, in upload order
Splits == <<"train", "val", "test">>

NoText == ""

(***************************************************************************)
(* Metadata store: table `datasets`                                        *)
(***************************************************************************)
\* dict.update semantics of a partial row update
Merge(updates, row) ==
    [f \in DOMAIN row |-> IF f \in DOMAIN updates THEN updates[f] ELSE row[f]]

\* SupabaseClient.update_dataset: UPDATE ... WHERE id = d; an exception is
\* logged and swallowed (ok = FALSE), a missing row is a silent no-op
update_dataset_guarded(tbl, d, updates, ok) ==
    IF ok /\ d \in DOMAIN tbl /\ tbl[d].status \notin {"completed", "failed"}
    THEN [tbl EXCEPT ![d] = Merge(updates, @)]
    ELSE tbl
update_dataset(tbl, d, updates, ok) ==
    IF ok /\ d \in DOMAIN tbl
    THEN [tbl EXCEPT ![d] = Merge(updates, @)]
    ELSE tbl

\* what update_dataset returns: the updated row, or None when the call
\* raised or no row has the id; process_dataset does not look at it
update_dataset_result(tbl, d, ok) == ok /\ d \in DOMAIN tbl

\* SupabaseClient.create_dataset: INSERT; a duplicate key or any other
\* exception is logged and swallowed
create_dataset(tbl, d, row, ok) ==
    IF ok /\ d \notin DOMAIN tbl
    THEN [x \in DOMAIN tbl \cup {d} |-> IF x = d THEN row ELSE tbl[x]]
    ELSE tbl

\* the initial row written by the preprocess endpoint
PendingRow == [status |-> "pending", error_message |-> NoText, file_path |-> NoText]

\* DatasetProcessingService.check_dataset_status(...)['processed']
check_dataset_status(tbl, d) ==
    /\ d \in DOMAIN tbl
    /\ tbl[d].status = "completed"
    /\ tbl[d].file_path # NoText

(***************************************************************************)
(* Object store keys                                                       *)
(***************************************************************************)
r2_base_path(d) == <<"datasets", d, "processed">>
SplitKey(d, s) == r2_base_path(d) \o <<s>>
SplitKeys(d) == {SplitKey(d, Splits[i]) : i \in 1..Len(Splits)}

\* upload_success &= r2_storage_client.upload_file(...)
UploadSuccessIgnored(acc, ok) == TRUE
UploadSuccess(acc, ok) == acc /\ ok

\* R2StorageClient.upload_file: the object is stored iff the call returns True
upload_file(st, key, ok) == IF ok THEN st \cup {key} ELSE st

(***************************************************************************)
(* Status values written by process_dataset                                *)
(***************************************************************************)
\* the status literal written at each point of process_dataset
ProcStatusSwapped(point) ==
    CASE point = "begin"  -> "completed"
      [] point = "finish" -> "processing"
      [] OTHER            -> "failed"
ProcStatus(point) ==
    CASE point = "begin"  -> "processing"
      [] point = "finish" -> "completed"
      [] OTHER            -> "failed"

ProcessingUpdate == [status |-> ProcStatus("begin")]
CompletedUpdate(d) == [status |-> ProcStatus("finish"), file_path |-> r2_base_path(d)]
FailedUpdate(err) == [status |-> ProcStatus("except"), error_message |-> err]

\* what the outer except clause of process_dataset hands to its caller:
\* an error dict, not the exception
ProcExceptReraises(err) == "raised"
ProcExceptResult(err) == "error"

\* str(e) of the exception raised by each step of process_dataset
ErrText(step) ==
    CASE step = "config" -> "Dataset not found in registry"
      [] step = "fetch"  -> "Kaggle download failed"
      [] step = "clean"  -> "preprocess failed"
      [] step = "split"  -> "split failed"
      [] step = "storage" -> "R2 storage is not available"
      [] step = "upload" -> "Failed to upload one or more files to R2 storage"
      [] step = "stats"  -> "statistics failed"
      [] OTHER -> NoText

\* the kinds of job; every invocation of a kind draws a fresh uuid
JobKinds == {"process", "train", "explain", "task"}
Invocations(r) == r["process"] + r["train"] + r["explain"] + r["task"]
\* the uuid of the next invocation of a kind, and the counters after it
FreshId(r, kind) == <<kind, r[kind] + 1>>
Started(r, kind) == [r EXCEPT ![kind] = @ + 1]

\* shutil.rmtree(temp_dir) in the finally block
rmtreeSkipped(dirs, inv) == dirs
rmtree(dirs, inv) == dirs \ {inv}
mkdir(dirs, inv) == dirs \cup {inv}

(***************************************************************************)
(* Model training service: inputs, ids, tables models and model_metrics    *)
(***************************************************************************)
\* model families a caller may request
ModelTypes == {"random_forest", "lightgbm"}
\* the families _train_model has a branch for (and POST /models/train admits)
SupportedModels == {"xgboost", "random_forest"}

\* model_id = f"{dataset_id}_{model_type}_{uuid4().hex[:8]}"
ModelId(d, family, inv) == <<d, family, inv[2]>>
\* r2_model_path = f"models/{dataset_id}/{model_id}.pkl"
r2_model_path(d, mid) == <<"models", d, mid>>

\* INSERT of one row; the caller decides what a failure means
insert_row(tbl, id, row, ok) ==
    IF ok /\ id \notin DOMAIN tbl
    THEN [x \in DOMAIN tbl \cup {id} |-> IF x = id THEN row ELSE tbl[x]]
    ELSE tbl

\* the row built in step 11 of train_model
model_data(d, family, mid) ==
    [status |-> "completed", dataset_id |-> d, model_type |-> family,
     model_path |-> r2_model_path(d, mid), error_message |-> NoText]

\* a row of table model_metrics, with the source_module metadata field
MetricsRow(mid, source) == [model_id |-> mid, source_module |-> source]
HasMetrics(tbl, mid) == \E r \in tbl : r.model_id = mid

\* the conflict target of table model_metrics: the model id
MetricsConflict(r1, r2) == r1.model_id = r2.model_id

\* DataAccessLayer.save_model_metrics: upsert of one row; an exception is
\* logged and the method returns False
save_model_metrics_appending(tbl, mid, source, ok) ==
    IF ok THEN tbl \cup {MetricsRow(mid, source)} ELSE tbl
save_model_metrics(tbl, mid, source, ok) ==
    IF ok
    THEN {r \in tbl : ~MetricsConflict(r, MetricsRow(mid, source))}
            \cup {MetricsRow(mid, source)}
    ELSE tbl

\* SupabaseClient.insert_model_metrics: plain INSERT, rejected on a conflict
insert_model_metrics(tbl, mid, source, ok) ==
    IF ok /\ ~\E r \in tbl : MetricsConflict(r, MetricsRow(mid, source))
    THEN tbl \cup {MetricsRow(mid, source)}
    ELSE tbl

\* the except clause around step 13 logs a warning and training goes on
AutoShapPropagates(outcome) == IF outcome = "ok" THEN "success" ELSE "error"
AutoShapResult(outcome) == "success"

IdleTrain == [pc |-> "idle", ds |-> "d1", model_type |-> "random_forest",
              inv |-> <<>>, mid |-> <<>>, dsSeen |-> "none",
              fitted |-> FALSE, uploaded |-> FALSE, recorded |-> FALSE,
              shap |-> "none", raisedIn |-> "none", err |-> NoText,
              errKind |-> "none", result |-> "none", writes |-> <<>>]

NewTrain(d, family, inv) ==
    [IdleTrain EXCEPT !.pc = "check", !.ds = d, !.model_type = family,
                      !.inv = inv, !.mid = ModelId(d, family, inv)]

\* an exception inside train_model's outer try
RaiseTrain(frame, step, kind, text) ==
    [frame EXCEPT !.pc = "except", !.raisedIn = step, !.errKind = kind,
                  !.err = text]

(***************************************************************************)
(* Explanation service: inputs, ids, table explanations                    *)
(***************************************************************************)
Methods == {"shap", "lime", "anchors"}
SupportedMethods == {"shap", "lime"}
\* an id no training run produces
MissingModelId == <<"d1", "random_forest", 0>>

\* str.startswith on ids
StartsWith(id, q) == Len(q) <= Len(id) /\ SubSeq(id, 1, Len(q)) = q

\* SupabaseClient.get_model: the rows the scan over the table can return
get_model(tbl, q) == {m \in DOMAIN tbl : m = q \/ StartsWith(m, q)}

\* explanation_id = f"{model_id}_{method}_{uuid4().hex[:8]}"
ExplanationId(q, method, inv) == <<q, method, inv[2]>>

\* sample sizes a caller may request
SampleSizes == {1, 2, 3}
\* rows of a processed test split
TestRows == 2

\* if len(test_df) > sample_size: test_df = test_df.sample(n=sample_size)
SampleRowsUnclamped(n, s) == s
SampleRows(n, s) == IF n > s THEN s ELSE n

\* sample_size = min(100, len(X_test)) of the automatic SHAP explanation
AutoSampleSize == 100
AutoSampleRows(n) == IF AutoSampleSize < n THEN AutoSampleSize ELSE n

\* the row handed to create_explanation; rows is 'sample_size', absent (0)
\* in a 'failed' record
explanation_record(q, method, status, err, rows) ==
    [model_id |-> q, method |-> method, status |-> status,
     error_message |-> err, sample_size |-> rows]

\* SupabaseClient.create_explanation: INSERT of one row; an exception is
\* logged and swallowed
create_explanation_replacing(tbl, id, row, ok) ==
    IF ok
    THEN [x \in {y \in DOMAIN tbl : tbl[y].model_id # row.model_id
                                      \/ tbl[y].method # row.method} \cup {id}
             |-> IF x = id THEN row ELSE tbl[x]]
    ELSE tbl
create_explanation(tbl, id, row, ok) == insert_row(tbl, id, row, ok)

\* the two files generate_explanation downloads into its directory
LocalFiles == {"model.pkl", "test.parquet"}

IdleExplain == [pc |-> "idle", q |-> <<>>, method |-> "shap",
                sample_size |-> 1, inv |-> <<>>,
                eid |-> <<>>, files |-> {}, raisedIn |-> "none",
                err |-> NoText, result |-> "none", response |-> "none"]

NewExplain(q, method, s, inv) ==
    [IdleExplain EXCEPT !.pc = "check", !.q = q, !.method = method,
                        !.sample_size = s,
                        !.inv = inv, !.eid = ExplanationId(q, method, inv)]

RaiseExplain(frame, step, text) ==
    [frame EXCEPT !.pc = "except", !.raisedIn = step, !.err = text]

\* sample indexes a caller may pass to the local explanation
SampleIndexes == {0, 5}
\* temp_dir = f"/tmp/local_exp_{model_id}_{sample_index}"
LocalDir(q, idx) == <<"local_exp", q, idx>>

IdleLocal == [pc |-> "idle", q |-> <<>>, idx |-> 0, raisedIn |-> "none",
              err |-> NoText, result |-> "none", response |-> "none"]

NewLocal(q, idx) == [IdleLocal EXCEPT !.pc = "check", !.q = q, !.idx = idx]

\* the exception leaves generate_local_explanation (log, then raise) and the
\* endpoint turns it into HTTP 500
LocalFaultHidden(frame) == "success"
LocalFault(frame) == "error"

(***************************************************************************)
(* Queued training task: SQLAlchemy rows                                   *)
(***************************************************************************)
\* the Model rows the task is enqueued for
TaskModelIds == {<<"d1", "queued", 0>>}
PendingModel == [status |-> "pending", error_message |-> NoText,
                 has_metrics |-> FALSE]

\* update_status_sync: the row is changed only if the query finds it
update_status_sync(tbl, mid, status, err) ==
    IF mid \in DOMAIN tbl
    THEN [tbl EXCEPT ![mid] = [@ EXCEPT !.status = status,
                                        !.error_message =
                                            IF err # NoText THEN err ELSE @]]
    ELSE tbl

\* save_results_sync: status COMPLETED and the ModelMetrics row, one commit
save_results_sync(tbl, mid) ==
    IF mid \in DOMAIN tbl
    THEN [tbl EXCEPT ![mid] = [@ EXCEPT !.status = "completed",
                                        !.has_metrics = TRUE]]
    ELSE tbl

IdleTask == [pc |-> "idle", mid |-> <<>>, ds |-> "d1",
             model_type |-> "random_forest", setup |-> FALSE,
             raisedIn |-> "none", err |-> NoText, result |-> "none",
             writes |-> <<>>]

NewTask(mid, d, family) ==
    [IdleTask EXCEPT !.pc = "begin", !.mid = mid, !.ds = d,
                     !.model_type = family]

RaiseTask(frame, step, text) ==
    [frame EXCEPT !.pc = "except", !.raisedIn = step, !.err = text]


\* ---------------------------------------------------------------------
\* Quality engine (services/quality_metrics_service.py) and the Quantus
\* evaluation (utils/metrics/quantus_metrics.py).
\* A float is an exact fraction num/den in lowest terms; den = 0 is NaN,
\* which arithmetic propagates and with which every comparison is false.
\* Rounding error of the float operations is not modelled here.

RECURSIVE GCD(_, _)
GCD(a, b) == IF b = 0 THEN a ELSE GCD(b, a % b)

Abs(x) == IF x < 0 THEN -x ELSE x

NaN == [num |-> 0, den |-> 0]

Frac(n, d) ==
    IF d = 0 THEN NaN
    ELSE LET g == GCD(Abs(n), Abs(d))
             s == IF d < 0 THEN -1 ELSE 1
         IN [num |-> (s * n) \div g, den |-> (s * d) \div g]

Zero == Frac(0, 1)
One == Frac(1, 1)

IsNaN(x) == x.den = 0

Add(x, y) ==
    IF IsNaN(x) \/ IsNaN(y) THEN NaN
    ELSE Frac(x.num * y.den + y.num * x.den, x.den * y.den)

Mul(x, y) ==
    IF IsNaN(x) \/ IsNaN(y) THEN NaN
    ELSE Frac(x.num * y.num, x.den * y.den)

Sub(x, y) == Add(x, Mul(Frac(-1, 1), y))

Less(x, y) == ~IsNaN(x) /\ ~IsNaN(y) /\ x.num * y.den < y.num * x.den

Leq(x, y) == ~IsNaN(x) /\ ~IsNaN(y) /\ x.num * y.den <= y.num * x.den

\* numpy's float division does not raise: 0/0 is NaN (with a warning).
\* A nonzero numerator over zero does not occur: importances are absolute
\* values, so a zero sum makes every term zero.
np_divide(x, y) ==
    IF IsNaN(x) \/ IsNaN(y) \/ y.num = 0 THEN NaN
    ELSE Frac(x.num * y.den, x.den * y.num)

\* Python's max(a, b) and min(a, b): b wins only when the comparison is true
pymax(a, b) == IF Less(a, b) THEN b ELSE a
pymin(a, b) == IF Less(b, a) THEN b ELSE a

RECURSIVE SumF(_)
SumF(s) == IF s = <<>> THEN Zero ELSE Add(Head(s), SumF(Tail(s)))

np_mean(s) == Mul(SumF(s), Frac(1, Len(s)))

RECURSIVE Insert(_, _)
Insert(x, s) ==
    IF s = <<>> THEN <<x>>
    ELSE IF x <= Head(s) THEN <<x>> \o s
    ELSE <<Head(s)>> \o Insert(x, Tail(s))

RECURSIVE SortAsc(_)
SortAsc(s) == IF s = <<>> THEN s ELSE Insert(Head(s), SortAsc(Tail(s)))

np_sort_skipped(s) == s
np_sort(s) == SortAsc(s)

sorted_reverse(s) == [i \in 1..Len(s) |-> SortAsc(s)[Len(s) + 1 - i]]

RECURSIVE SumN(_)
SumN(s) == IF s = <<>> THEN 0 ELSE Head(s) + SumN(Tail(s))

\* np.sum(index * sorted_imp) with index = 1..n
RECURSIVE WeightedSum(_, _)
WeightedSum(s, i) ==
    IF s = <<>> THEN 0 ELSE i * Head(s) + WeightedSum(Tail(s), i + 1)

\* np.cumsum(s)[i-1]
CumSum(s, i) == SumN(SubSeq(s, 1, i))

\* feature-importance maps: the importances of up to MaxFeatures features,
\* absolute values as the explanation service records them
MaxFeatures == 3
ImportanceValues == 0..2
ImportanceMaps ==
    UNION {[1..n -> ImportanceValues] : n \in 0..MaxFeatures}

\* mean change in predicted probability when a top feature is set to its
\* median, and per-row correlations of original and noisy attributions
DropValues == {Frac(-1, 2), Frac(1, 4), Frac(1, 1)}
CorrValues == {NaN, Frac(-1, 1), Frac(1, 2), Frac(1, 1)}
CorrRows == UNION {[1..n -> CorrValues] : n \in 0..2}

TopFeatures == 5

top_features(imp) ==
    LET s == sorted_reverse(imp)
    IN SubSeq(s, 1, IF Len(s) < TopFeatures THEN Len(s) ELSE TopFeatures)

FaithfulnessFallback ==
    [score |-> Frac(5, 10), monotonicity |-> Frac(5, 10),
     selectivity |-> Frac(5, 10), description |-> "failed"]

_calculate_faithfulness(imp, drops) ==
    LET k == Len(top_features(imp))
        monotonicity_scores == [i \in 1..k |-> pymax(Zero, drops[i])]
        monotonicity == IF k > 0 THEN np_mean(monotonicity_scores)
                        ELSE Frac(5, 10)
        selectivity == pymin(One, Frac(k, 10))
    IN [score |-> Add(Mul(Frac(6, 10), monotonicity),
                      Mul(Frac(4, 10), selectivity)),
        monotonicity |-> monotonicity,
        selectivity |-> selectivity,
        description |-> "ok"]

RobustnessFallback ==
    [score |-> Frac(8, 10), stability |-> Frac(8, 10),
     description |-> "failed"]

_calculate_robustness(corrs) ==
    LET correlations == SelectSeq(corrs, LAMBDA c : ~IsNaN(c))
        stability == IF correlations # <<>> THEN np_mean(correlations)
                     ELSE Frac(8, 10)
    IN [score |-> pymax(Zero, pymin(One, stability)),
        stability |-> stability,
        description |-> "ok"]

ComplexityFallback ==
    [score |-> Frac(7, 10), sparsity |-> Frac(3, 10),
     gini_coefficient |-> Frac(7, 10), effective_features |-> 10,
     description |-> "failed"]

gini_coefficient(imp) ==
    LET sorted_imp == np_sort(imp)
        n == Len(sorted_imp)
    IN Sub(np_divide(Frac(2 * WeightedSum(sorted_imp, 1), 1),
                     Frac(n * SumN(sorted_imp), 1)),
           Frac(n + 1, n))

\* np.argmax(cumsum >= 0.8 * total) + 1: the first position that reaches
\* the threshold, position 1 when none does
effective_features(imp) ==
    LET desc == sorted_reverse(imp)
        total == CumSum(desc, Len(desc))
        hits == {i \in 1..Len(desc) : 10 * CumSum(desc, i) >= 8 * total}
    IN IF hits = {} THEN 1
       ELSE CHOOSE i \in hits : \A j \in hits : i <= j

\* (n + 1) / n is a division of Python integers and raises for an empty
\* map; the handler then returns the fallback
_calculate_complexity(imp) ==
    IF Len(imp) = 0 THEN ComplexityFallback
    ELSE LET gini == gini_coefficient(imp)
             sparsity == Sub(One, Frac(effective_features(imp), Len(imp)))
         IN [score |-> Add(Mul(Frac(5, 10), gini),
                           Mul(Frac(5, 10), sparsity)),
             sparsity |-> sparsity,
             gini_coefficient |-> gini,
             effective_features |-> effective_features(imp),
             description |-> "ok"]

overall_quality_sparsity(f, r, c) ==
    Add(Add(Mul(Frac(4, 10), f.score), Mul(Frac(3, 10), r.score)),
        Mul(Frac(3, 10), Sub(One, c.sparsity)))
overall_quality(f, r, c) ==
    Add(Add(Mul(Frac(4, 10), f.score), Mul(Frac(3, 10), r.score)),
        Mul(Frac(3, 10), c.score))

\* QuantusEvaluator.evaluate_all: its own sub-results and weighting
QuantusValues == {Zero, Frac(1, 2), One}
quality_score(f, r, c) ==
    Add(Add(Mul(f.monotonicity, Frac(4, 10)), Mul(r.stability, Frac(3, 10))),
        Mul(Sub(One, c.sparsity), Frac(3, 10)))

IdleQuality ==
    [pc |-> "idle", engine |-> "service", importance |-> <<>>,
     faithfulness |-> [FaithfulnessFallback EXCEPT !.description = "unset"],
     robustness |-> [RobustnessFallback EXCEPT !.description = "unset"],
     complexity |-> [ComplexityFallback EXCEPT !.description = "unset"],
     overall_quality |-> NaN, result |-> "none"]


\* ---------------------------------------------------------------------
\* BaseDatasetLoader.split (datasets/loaders/base.py)
\* A ratio is the double nearest to pct/100: that double is
\* pct/100 - (errNum/errDen) * 2^-bits, a negative errNum meaning that the
\* double lies above pct/100.

SplitRatio(pct, errNum, errDen, bits) ==
    [pct |-> pct, errNum |-> errNum, errDen |-> errDen, bits |-> bits]

DefaultRatios ==
    [train |-> SplitRatio(70, 2, 5, 53),
     val   |-> SplitRatio(15, 1, 5, 55),
     test  |-> SplitRatio(15, 1, 5, 55)]

SplitRatios ==
    {DefaultRatios,
     [train |-> SplitRatio(80, -2, 5, 53),
      val   |-> SplitRatio(10, -2, 5, 56),
      test  |-> SplitRatio(10, -2, 5, 56)],
     [train |-> SplitRatio(60, 1, 5, 53),
      val   |-> SplitRatio(20, -2, 5, 55),
      test  |-> SplitRatio(20, -2, 5, 55)]}

MaxRows == 90

RECURSIVE Pow2(_)
Pow2(e) == IF e = 0 THEN 1 ELSE 2 * Pow2(e - 1)

\* the smallest power of two that is at least k
RECURSIVE Pow2Ceil(_, _)
Pow2Ceil(k, p) == IF p >= k THEN p ELSE Pow2Ceil(k, 2 * p)

\* int(n * ratio): the product is rounded to the nearest double and then
\* truncated.  When n * pct / 100 is not a whole number the product is far
\* from one and truncation gives its floor.  When it is a whole number k
\* and the double lies below pct/100, the exact product lies
\* n * (errNum/errDen) * 2^-bits below k; it rounds up to k only if that
\* distance is at most half the spacing of the doubles below k, which is
\* Pow2Ceil(k) * 2^-54, and otherwise stays below k and truncates to k - 1.
int_exact(n, ratio) == (n * ratio.pct) \div 100
int(n, ratio) ==
    LET k == (n * ratio.pct) \div 100
        whole == (n * ratio.pct) % 100 = 0
    IN IF ~whole \/ k = 0 \/ ratio.errNum <= 0 THEN k
       ELSE IF 2 * n * ratio.errNum <=
                   ratio.errDen * Pow2(ratio.bits - 53) * Pow2Ceil(k, 1)
            THEN k
            ELSE k - 1

\* df[a:b] on a frame of rows, with Python's clipping of the bounds
Slice(df, a, b) ==
    LET lo == IF a > Len(df) THEN Len(df) ELSE a
        hi == IF b > Len(df) THEN Len(df) ELSE b
    IN SubSeq(df, lo + 1, hi)

\* df.sample(frac=1, random_state=42): some fixed permutation of the rows;
\* the identity, the reversal and a rotation stand for it
Shuffles == {"identity", "reverse", "rotate"}
sample(n, how) ==
    [i \in 1..n |-> CASE how = "identity" -> i
                      [] how = "reverse" -> n + 1 - i
                      [] how = "rotate" -> (i % n) + 1]

Range(s) == {s[i] : i \in 1..Len(s)}

IdleSplit ==
    [pc |-> "idle", n |-> 0, ratios |-> DefaultRatios, df |-> <<>>,
     train |-> <<>>, val |-> <<>>, test |-> <<>>]

\* ---------------------------------------------------------------------
\* Model lookup by id (utils/supabase_client.py, core/data_access.py).
\* An id is the sequence of the pieces of its string, "_metrics" being one
\* piece, so that prefixes and the removal of "_metrics" are those of the
\* string.

MetricsSuffix == "_metrics"

None == <<"None">>

\* ids a caller of create_model can store: a plain id, the same id with
\* the suffix, a longer id that begins with it, and the id of a model
\* trained on a dataset whose own id contains "_metrics"
StoredIds ==
    {<<"m1">>, <<"m1", MetricsSuffix>>, <<"m1", "x">>,
     <<"d", MetricsSuffix, "m2">>}

MaxModels == 3

\* model_id.replace('_metrics', ''): every occurrence is removed
replace_metrics(q) == SelectSeq(q, LAMBDA piece : piece # MetricsSuffix)

\* SupabaseClient.get_model: the first row of the scan whose id equals the
\* argument or starts with it
db_get_model(rows, q) ==
    LET hits == {i \in 1..Len(rows) : rows[i] = q \/ StartsWith(rows[i], q)}
    IN IF hits = {} THEN None
       ELSE rows[CHOOSE i \in hits : \A j \in hits : i <= j]

\* DataAccessLayer.get_model: the id of the record returned
dal_get_model(rows, q) == db_get_model(rows, replace_metrics(q))

IdleLookup == [rows |-> <<>>, q |-> None, found |-> None]

(***************************************************************************)
(* Serving process: POST /explanations/local and POST                      *)
(* /explanations/{id}/evaluate-quality with their timeouts, the files under *)
(* /tmp and the explainer cache of the service instance                    *)
(***************************************************************************)
\* requests of the two endpoints being served at the same time
ServeJobs == {"r1", "r2"}

\* a model registered by scripts/train_model_simple.py, of a family
\* generate_local_explanation builds a KernelExplainer for
LinearModel == <<"d1", "logistic_regression", 2>>
\* if model['model_type'] in ['xgboost', 'random_forest']: TreeExplainer
TreeFamilies == {"xgboost", "random_forest"}

\* temp_dir = Path(f"/tmp/quality_eval_{explanation_id}")
EvalDir(eid) == <<"quality_eval", eid>>

\* R2StorageClient.download_file(remote, local): the parent directory is
\* created and the file written when the object exists and the call succeeds;
\* False is returned otherwise, which neither caller looks at
download_file(files, st, key, path, ok) ==
    IF ok /\ key \in st THEN files \cup {path} ELSE files

\* if temp_dir.exists(): shutil.rmtree(temp_dir) -- the directory with every
\* file in it, whoever wrote it
rmtree_files(files, dir) == {path \in files : path[1] # dir}

\* cache_key = f"{model_id}_{model['model_type']}", model_id as requested
cache_key(q, family) == <<q, family>>

\* self._explainer_cache[cache_key] = explainer, after either branch
cache_store_tree_only(cache, key) ==
    IF key[2] \in TreeFamilies THEN cache \cup {key} ELSE cache
cache_store(cache, key) == cache \cup {key}

\* asyncio.wait_for(asyncio.to_thread(...), timeout): TimeoutError reaches
\* the caller, the thread is not interrupted
wait_for_timeout_cancelling(frame) ==
    [frame EXCEPT !.response = "timeout", !.pc = "done"]
wait_for_timeout(frame) == [frame EXCEPT !.response = "timeout"]

\* what the awaiting endpoint answers when the thread ends: nothing more once
\* the wait has timed out
answer(frame, outcome) ==
    IF frame.response = "none" THEN outcome ELSE frame.response

\* frame of one request: of generate_local_explanation(q, idx) with its
\* endpoint, or of the evaluate-quality endpoint for eid with its thread;
\* fetched: the files its downloads wrote and its thread has yet to open
IdleServe == [pc |-> "idle", kind |-> "none", q |-> <<>>, idx |-> 0,
              eid |-> <<>>, fetched |-> {}, explainer |-> "none",
              err |-> NoText, result |-> "none", response |-> "none"]
NewServe(q, idx) ==
    [IdleServe EXCEPT !.pc = "check", !.kind = "local", !.q = q, !.idx = idx]
IdleEval == [IdleServe EXCEPT !.kind = "eval"]

\* a slot is free before its first request and once both the thread and the
\* endpoint of the last one are through
Answered(frame) ==
    frame.pc = "idle" \/ (frame.pc = "done" /\ frame.response # "none")

(***************************************************************************)
(* Deleting a model: DELETE /models/{model_id} and                         *)
(* DataAccessLayer.delete_model                                            *)
(***************************************************************************)
\* DELETE FROM explanations WHERE model_id = base (the endpoint lists the
\* rows with that model_id and deletes them by id)
delete_explanations(tbl, base, ok) ==
    IF ok
    THEN [e \in {x \in DOMAIN tbl : tbl[x].model_id # base} |-> tbl[e]]
    ELSE tbl
\* DELETE FROM model_metrics WHERE model_id = base
delete_metrics(rows, base, ok) ==
    IF ok THEN {r \in rows : r.model_id # base} ELSE rows
\* DELETE FROM models WHERE id = base
delete_row(tbl, base, ok) ==
    IF ok THEN [m \in DOMAIN tbl \ {base} |-> tbl[m]] ELSE tbl

IdleDelete == [q |-> None, base |-> None, via |-> "none",
               response |-> "none"]

(***************************************************************************)
(* Queued tasks explanation_tasks.generate_explanation and                 *)
(* explanation_tasks.evaluate_explanation_quality_task: their status       *)
(* entries in Redis                                                        *)
(***************************************************************************)
\* the explanation ids and evaluation ids tasks are queued for
QueuedExplanations == {"x1", "x2"}
QueuedEvaluations == {"v1"}

\* f"explanation:{explanation_id}" and f"quality_eval:{eval_id}"
ExplanationKey(eid) == <<"explanation", eid>>
EvalKey(ev) == <<"quality_eval", ev>>

\* the entry whoever queues the task has written, status 'pending'
setex_new(rd, key) ==
    [k \in DOMAIN rd \cup {key} |-> IF k = key THEN "pending" ELSE rd[k]]

\* data = redis_client.get(key); if data: data["status"] = status;
\* redis_client.setex(key, 3600, json.dumps(data))
set_status(rd, key, status) ==
    IF key \in DOMAIN rd THEN [rd EXCEPT ![key] = status] ELSE rd

IdleGen == [pc |-> "idle", method |-> "shap", err |-> NoText,
            result |-> "none"]
IdleEvalTask == [pc |-> "idle", eid |-> "x1", err |-> NoText,
                 result |-> "none"]

VARIABLES
    datasets,      \* metadata store, table datasets: id -> row
    models,        \* metadata store, table models: id -> row
    metrics,       \* metadata store, table model_metrics: set of rows
    explanations,  \* metadata store, table explanations: id -> row
    store,         \* object store: set of keys present
    scratch,       \* local scratch directories that exist, by invocation uuid
    runs,          \* invocations started so far, per kind of job
    pjob,          \* process_dataset jobs: slot -> frame
    tjob,          \* frame of ModelTrainingService.train_model
    ejob,          \* frame of ExplanationService.generate_explanation
    sqlModels,     \* SQLAlchemy Model rows (with their ModelMetrics flag)
    ctask,         \* frame of the queued task training_tasks.train_model
    ljob,          \* frame of ExplanationService.generate_local_explanation
    qjob,          \* frame of a quality evaluation and its result
    sjob,          \* frame of BaseDatasetLoader.split and its result
    mtab,          \* table models as a scan returns it, and the last lookup
    req,           \* requests of POST /explanations/local and of POST
                   \* .../evaluate-quality being served: slot -> frame
    tmp,           \* files under /tmp/local_exp_* and /tmp/quality_eval_*
    _explainer_cache, \* ExplanationService._explainer_cache: keys present
    djob,          \* the last model deletion: its argument and its answer
    redis,         \* Redis db 2: key -> status of the entry
    gtask,         \* tasks generate_explanation: explanation id -> frame
    vtask          \* tasks evaluate_explanation_quality_task: id -> frame

\* the queued explanation tasks and their status entries
queued == <<redis, gtask, vtask>>

\* the state of the serving process
serving == <<req, tmp, _explainer_cache>>

vars == <<datasets, models, metrics, explanations, store, scratch, runs,
          pjob, tjob, ejob, sqlModels, ctask, ljob, qjob, sjob, mtab,
    serving, djob, queued>>

\* everything process_dataset and its endpoint never touch
trainSide == <<models, metrics, explanations, tjob, ejob, sqlModels, ctask, ljob, qjob, sjob, mtab,
    serving, djob, queued>>

IdleProc == [pc |-> "idle", ds |-> "d1", inv |-> <<>>, up |-> TRUE,
             raisedIn |-> "none", err |-> NoText, result |-> "none",
             writes |-> <<>>, ack |-> FALSE]

Init ==
    /\ datasets = <<>>
    /\ store = {}
    /\ scratch = {}
    /\ runs = [k \in JobKinds |-> 0]
    /\ pjob = [j \in ProcJobs |-> IdleProc]
    /\ models = <<>>
    /\ metrics = {}
    /\ explanations = <<>>
    /\ tjob = IdleTrain
    /\ ejob = IdleExplain
    /\ sqlModels = [m \in TaskModelIds |-> PendingModel]
    /\ ctask = IdleTask
    /\ ljob = IdleLocal
    /\ qjob = IdleQuality
    /\ sjob = IdleSplit
    /\ mtab = IdleLookup
    /\ req = [j \in ServeJobs |-> IdleServe]
    /\ tmp = {}
    /\ _explainer_cache = {}
    /\ djob = IdleDelete
    /\ redis = <<>>
    /\ gtask = [eid \in QueuedExplanations |-> IdleGen]
    /\ vtask = [ev \in QueuedEvaluations |-> IdleEvalTask]

Free(frame) == frame.pc \in {"idle", "done"}

\* a fresh frame of process_dataset(d)
NewProc(d, inv) == [IdleProc EXCEPT !.pc = "begin", !.ds = d, !.inv = inv]

(***************************************************************************)
(* POST /datasets/{dataset_id}/preprocess                                  *)
(***************************************************************************)
PreprocessRequest(j, d) ==
    /\ Invocations(runs) < MaxInvocations
    /\ Free(pjob[j])
    /\ d \in Registry                       \* else 404
    /\ ~check_dataset_status(datasets, d)   \* else "already processed"
    /\ \E ok \in BOOLEAN :
          datasets' = create_dataset(datasets, d, PendingRow, ok)
    /\ pjob' = [pjob EXCEPT ![j] = NewProc(d, FreshId(runs, "process"))]
    /\ runs' = Started(runs, "process")
    /\ UNCHANGED <<store, scratch>>
    /\ UNCHANGED trainSide

\* dataset_service.process_dataset(dataset_id) called with any id
InvokeProcess(j, d) ==
    /\ Invocations(runs) < MaxInvocations
    /\ Free(pjob[j])
    /\ pjob' = [pjob EXCEPT ![j] = NewProc(d, FreshId(runs, "process"))]
    /\ runs' = Started(runs, "process")
    /\ UNCHANGED <<datasets, store, scratch>>
    /\ UNCHANGED trainSide

(***************************************************************************)
(* DatasetProcessingService.process_dataset                                *)
(***************************************************************************)
\* an exception raised inside the inner try: the finally block removes the
\* scratch directory, then control reaches the outer except clause
RaiseProc(frame, step) ==
    [frame EXCEPT !.pc = "except", !.raisedIn = step, !.err = ErrText(step)]

\* steps 1-3: registry lookup, status 'processing', scratch directory
ProcBegin(j) ==
    LET f == pjob[j] IN
    /\ f.pc = "begin"
    /\ IF f.ds \notin Registry
       THEN /\ pjob' = [pjob EXCEPT ![j] = RaiseProc(f, "config")]
            /\ UNCHANGED <<datasets, scratch>>
       ELSE /\ \E ok \in BOOLEAN :
                  /\ datasets' =
                        update_dataset(datasets, f.ds, ProcessingUpdate, ok)
                  /\ pjob' = [pjob EXCEPT ![j] =
                        [f EXCEPT
                           !.pc = "prepare",
                           !.writes = Append(@, ProcessingUpdate.status),
                           !.ack = update_dataset_result(datasets, f.ds, ok)]]
            /\ scratch' = mkdir(scratch, f.inv)
    /\ UNCHANGED <<store, runs>>
    /\ UNCHANGED trainSide

\* steps 4-7 and the availability check of step 8: download, load,
\* preprocess, split, write the three parquet files to the scratch directory
ProcPrepare(j) ==
    LET f == pjob[j] IN
    /\ f.pc = "prepare"
    /\ \E outcome \in {"ok", "fetch", "clean", "split", "storage"} :
          IF outcome = "ok"
          THEN /\ pjob' = [pjob EXCEPT ![j] = [f EXCEPT !.pc = "upload1"]]
               /\ UNCHANGED scratch
          ELSE /\ pjob' = [pjob EXCEPT ![j] = RaiseProc(f, outcome)]
               /\ scratch' = rmtree(scratch, f.inv)
    /\ UNCHANGED <<datasets, store, runs>>
    /\ UNCHANGED trainSide

\* step 8: the i-th of the three sequential uploads
ProcUpload(j, i) ==
    LET f == pjob[j] IN
    /\ f.pc = "upload" \o ToString(i)
    /\ \E ok \in BOOLEAN :
          LET up == UploadSuccess(f.up, ok) IN
          /\ store' = upload_file(store, SplitKey(f.ds, Splits[i]), ok)
          /\ IF i < Len(Splits)
             THEN /\ pjob' = [pjob EXCEPT ![j] =
                                 [f EXCEPT !.pc = "upload" \o ToString(i + 1),
                                           !.up = up]]
                  /\ UNCHANGED scratch
             ELSE IF up
             THEN /\ pjob' = [pjob EXCEPT ![j] =
                                 [f EXCEPT !.pc = "finish", !.up = up]]
                  /\ UNCHANGED scratch
             ELSE /\ pjob' = [pjob EXCEPT ![j] =
                                 RaiseProc([f EXCEPT !.up = up], "upload")]
                  /\ scratch' = rmtree(scratch, f.inv)
    /\ UNCHANGED <<datasets, runs>>
    /\ UNCHANGED trainSide

\* steps 9-10: statistics, status 'completed', return, finally
ProcFinish(j) ==
    LET f == pjob[j] IN
    /\ f.pc = "finish"
    /\ \/ /\ pjob' = [pjob EXCEPT ![j] = RaiseProc(f, "stats")]
          /\ UNCHANGED datasets
       \/ \E ok \in BOOLEAN :
             /\ datasets' =
                   update_dataset(datasets, f.ds, CompletedUpdate(f.ds), ok)
             /\ pjob' = [pjob EXCEPT ![j] =
                   [f EXCEPT
                      !.pc = "done", !.result = "success",
                      !.writes = Append(@, CompletedUpdate(f.ds).status),
                      !.ack = update_dataset_result(datasets, f.ds, ok)]]
    /\ scratch' = rmtree(scratch, f.inv)
    /\ UNCHANGED <<store, runs>>
    /\ UNCHANGED trainSide

\* the outer except clause: status 'failed' with str(e), return an error dict
ProcExcept(j) ==
    LET f == pjob[j] IN
    /\ f.pc = "except"
    /\ \E ok \in BOOLEAN :
          /\ datasets' =
                update_dataset(datasets, f.ds, FailedUpdate(f.err), ok)
          /\ pjob' = [pjob EXCEPT ![j] =
                [f EXCEPT
                   !.pc = "done", !.result = ProcExceptResult(f.err),
                   !.writes = Append(@, FailedUpdate(f.err).status),
                   !.ack = update_dataset_result(datasets, f.ds, ok)]]
    /\ UNCHANGED <<store, scratch, runs>>
    /\ UNCHANGED trainSide

\* the worker dies between two steps: nothing more runs, not even finally
ProcCrash(j) ==
    LET f == pjob[j] IN
    /\ f.pc \notin {"idle", "done", "crashed"}
    /\ pjob' = [pjob EXCEPT ![j] = [f EXCEPT !.pc = "crashed"]]
    /\ UNCHANGED <<datasets, store, scratch, runs>>
    /\ UNCHANGED trainSide

(***************************************************************************)
(* POST /models/train and ModelTrainingService.train_model                 *)
(***************************************************************************)
\* everything train_model leaves alone besides what each step names
notTrain == <<datasets, pjob, ejob, sqlModels, ctask, ljob, qjob, sjob, mtab,
    serving, djob, queued>>

\* the endpoint validates, then schedules train_model in the background
TrainRequest(d, family) ==
    /\ Invocations(runs) < MaxInvocations
    /\ Free(tjob)
    /\ check_dataset_status(datasets, d)    \* else 400
    /\ family \in SupportedModels           \* else 400
    /\ tjob' = NewTrain(d, family, FreshId(runs, "train"))
    /\ runs' = Started(runs, "train")
    /\ UNCHANGED <<models, metrics, explanations, store, scratch>>
    /\ UNCHANGED notTrain

\* model_service.train_model(dataset_id, model_type) called with any input
InvokeTrain(d, family) ==
    /\ Invocations(runs) < MaxInvocations
    /\ Free(tjob)
    /\ tjob' = NewTrain(d, family, FreshId(runs, "train"))
    /\ runs' = Started(runs, "train")
    /\ UNCHANGED <<models, metrics, explanations, store, scratch>>
    /\ UNCHANGED notTrain

\* steps 1-2: the dataset must exist, be completed and have a file path
TrainCheck ==
    LET f == tjob IN
    /\ f.pc = "check"
    /\ IF f.ds \notin DOMAIN datasets
       THEN /\ tjob' = RaiseTrain(f, "dataset", "ValueError", "Dataset not found")
            /\ UNCHANGED scratch
       ELSE IF datasets[f.ds].status # "completed"
       THEN /\ tjob' = RaiseTrain([f EXCEPT !.dsSeen = datasets[f.ds].status],
                                  "dataset", "ValueError", "Dataset is not processed")
            /\ UNCHANGED scratch
       ELSE IF datasets[f.ds].file_path = NoText
       THEN /\ tjob' = RaiseTrain([f EXCEPT !.dsSeen = datasets[f.ds].status],
                                  "dataset", "ValueError", "Dataset has no file path")
            /\ UNCHANGED scratch
       ELSE /\ tjob' = [f EXCEPT !.pc = "load", !.dsSeen = datasets[f.ds].status]
            /\ scratch' = mkdir(scratch, f.inv)
    /\ UNCHANGED <<models, metrics, explanations, store, runs>>
    /\ UNCHANGED notTrain

\* steps 3-5: three unchecked downloads, then read_parquet of the local files
TrainLoad ==
    LET f == tjob IN
    /\ f.pc = "load"
    /\ \E ok \in BOOLEAN :
          IF ok /\ SplitKeys(f.ds) \subseteq store
          THEN /\ tjob' = [f EXCEPT !.pc = "fit"]
               /\ UNCHANGED scratch
          ELSE /\ tjob' = RaiseTrain(f, "load", "FileNotFoundError",
                                     "No such file: train.parquet")
               /\ scratch' = rmtree(scratch, f.inv)
    /\ UNCHANGED <<models, metrics, explanations, store, runs>>
    /\ UNCHANGED notTrain

\* steps 6-9: _train_model picks the estimator by family and fits it, then
\* evaluation and pickling
TrainFit ==
    LET f == tjob IN
    /\ f.pc = "fit"
    /\ IF f.model_type \notin SupportedModels
       THEN /\ tjob' = RaiseTrain(f, "family", "ValueError", "Unsupported model type")
            /\ scratch' = rmtree(scratch, f.inv)
       ELSE \E ok \in BOOLEAN :
              IF ok
              THEN /\ tjob' = [f EXCEPT !.pc = "upload", !.fitted = TRUE]
                   /\ UNCHANGED scratch
              ELSE /\ tjob' = RaiseTrain([f EXCEPT !.fitted = TRUE], "fit",
                                         "Exception", "fit failed")
                   /\ scratch' = rmtree(scratch, f.inv)
    /\ UNCHANGED <<models, metrics, explanations, store, runs>>
    /\ UNCHANGED notTrain

\* step 10: r2_service.upload_file(...), its boolean result is dropped
TrainUpload ==
    LET f == tjob IN
    /\ f.pc = "upload"
    /\ \E ok \in BOOLEAN :
          store' = upload_file(store, r2_model_path(f.ds, f.mid), ok)
    /\ tjob' = [f EXCEPT !.pc = "record", !.uploaded = TRUE]
    /\ UNCHANGED <<models, metrics, explanations, scratch, runs>>
    /\ UNCHANGED notTrain

\* step 11: dal.create_model inserts the row with status 'completed'; a
\* failed insert returns None and train_model raises RuntimeError
TrainRecord ==
    LET f == tjob IN
    /\ f.pc = "record"
    /\ \E ok \in BOOLEAN :
          IF ok
          THEN /\ models' = insert_row(models, f.mid,
                                       model_data(f.ds, f.model_type, f.mid), ok)
               /\ tjob' = [f EXCEPT !.pc = "metrics", !.recorded = TRUE,
                                    !.writes = Append(@, "completed")]
               /\ UNCHANGED scratch
          ELSE /\ tjob' = RaiseTrain(f, "record", "RuntimeError",
                                     "Failed to save model to database")
               /\ scratch' = rmtree(scratch, f.inv)
               /\ UNCHANGED models
    /\ UNCHANGED <<metrics, explanations, store, runs>>
    /\ UNCHANGED notTrain

\* step 12: dal.save_model_metrics(...), its boolean result is dropped
TrainMetrics ==
    LET f == tjob IN
    /\ f.pc = "metrics"
    /\ \E ok \in BOOLEAN :
          metrics' = save_model_metrics(metrics, f.mid, "model_service", ok)
    /\ tjob' = [f EXCEPT !.pc = "shap"]
    /\ UNCHANGED <<models, explanations, store, scratch, runs>>
    /\ UNCHANGED notTrain

\* step 13 and the return: the automatic SHAP explanation inside its own
\* try/except (dal.save_explanation lets the database generate the row id),
\* then the success result and the finally block
TrainShap ==
    LET f == tjob IN
    /\ f.pc = "shap"
    /\ \E outcome \in {"ok", "failed", "save_failed"} :
          /\ explanations' =
                insert_row(explanations, ExplanationId(f.mid, "auto_shap", f.inv),
                           explanation_record(f.mid, "shap", "completed", NoText,
                                              AutoSampleRows(TestRows)),
                           outcome = "ok")
          /\ tjob' = [f EXCEPT !.pc = "done", !.shap = outcome,
                               !.result = AutoShapResult(outcome)]
    /\ scratch' = rmtree(scratch, f.inv)
    /\ UNCHANGED <<models, metrics, store, runs>>
    /\ UNCHANGED notTrain

\* the outer except clause: log, return an error dict; no table is written
TrainExcept ==
    LET f == tjob IN
    /\ f.pc = "except"
    /\ tjob' = [f EXCEPT !.pc = "done", !.result = "error"]
    /\ UNCHANGED <<models, metrics, explanations, store, scratch, runs>>
    /\ UNCHANGED notTrain

\* MetricsService.save_metrics(model_id, metrics): metrics computed again
\* for a stored model and saved through the same data access method
SaveMetrics(m) ==
    /\ m \in DOMAIN models
    /\ \E ok \in BOOLEAN :
          metrics' = save_model_metrics(metrics, m, "metrics_service", ok)
    /\ UNCHANGED <<models, explanations, store, scratch, runs, tjob>>
    /\ UNCHANGED notTrain

(***************************************************************************)
(* POST /explanations/generate and ExplanationService.generate_explanation *)
(***************************************************************************)
notExplain ==
    <<datasets, models, metrics, store, pjob, tjob, sqlModels, ctask, ljob, qjob, sjob, mtab,
    serving, djob, queued>>

\* model ids a caller may pass
ModelQueries == DOMAIN models \cup {MissingModelId}

\* the endpoint validates the method and the model, then schedules the job
ExplanationRequest(q, method, s) ==
    /\ Invocations(runs) < MaxInvocations
    /\ Free(ejob)
    /\ method \in SupportedMethods          \* else 400
    /\ get_model(models, q) # {}            \* else 404
    /\ ejob' = [NewExplain(q, method, s, FreshId(runs, "explain"))
                   EXCEPT !.response = "started"]
    /\ runs' = Started(runs, "explain")
    /\ UNCHANGED <<explanations, scratch>>
    /\ UNCHANGED notExplain

\* explanation_service.generate_explanation(model_id, method) with any input
InvokeExplain(q, method, s) ==
    /\ Invocations(runs) < MaxInvocations
    /\ Free(ejob)
    /\ ejob' = NewExplain(q, method, s, FreshId(runs, "explain"))
    /\ runs' = Started(runs, "explain")
    /\ UNCHANGED <<explanations, scratch>>
    /\ UNCHANGED notExplain

\* steps 1-2 and the scratch directory: model row, its status, dataset row
ExplainCheck ==
    LET f == ejob IN
    /\ f.pc = "check"
    /\ IF get_model(models, f.q) = {}
       THEN /\ ejob' = RaiseExplain(f, "model", "Model not found")
            /\ UNCHANGED scratch
       ELSE \E m \in get_model(models, f.q) :
              IF models[m].status # "completed"
              THEN /\ ejob' = RaiseExplain(f, "model", "Model is not completed")
                   /\ UNCHANGED scratch
              ELSE IF models[m].dataset_id \notin DOMAIN datasets
              THEN /\ ejob' = RaiseExplain(f, "dataset", "Dataset not found")
                   /\ UNCHANGED scratch
              ELSE /\ ejob' = [f EXCEPT !.pc = "download"]
                   /\ scratch' = mkdir(scratch, f.inv)
    /\ UNCHANGED <<explanations, runs>>
    /\ UNCHANGED notExplain

\* step 3: the two downloads; R2StorageClient.download_file writes the local
\* file iff it returns True, and the caller drops that result
ExplainDownload ==
    LET f == ejob IN
    /\ f.pc = "download"
    /\ \E m \in get_model(models, f.q), okModel \in BOOLEAN, okTest \in BOOLEAN :
          LET d == models[m].dataset_id
              got == {x \in LocalFiles :
                        \/ x = "model.pkl" /\ okModel
                                           /\ models[m].model_path \in store
                        \/ x = "test.parquet" /\ okTest
                                              /\ SplitKey(d, "test") \in store}
          IN  ejob' = [f EXCEPT !.pc = "compute", !.files = got]
    /\ UNCHANGED <<explanations, scratch, runs>>
    /\ UNCHANGED notExplain

\* steps 3-5 after the downloads: read_parquet, sampling, the attribution
\* method, the record with status 'completed', return, finally
ExplainCompute ==
    LET f == ejob IN
    /\ f.pc = "compute"
    /\ \E computed \in BOOLEAN :
          IF "test.parquet" \notin f.files
          THEN /\ ejob' = RaiseExplain(f, "test_split", "No such file: test.parquet")
               /\ UNCHANGED explanations
          ELSE IF f.method \notin SupportedMethods
          THEN /\ ejob' = RaiseExplain(f, "method", "Unsupported method")
               /\ UNCHANGED explanations
          ELSE IF "model.pkl" \notin f.files
          THEN /\ ejob' = RaiseExplain(f, "artifact", "No such file: model.pkl")
               /\ UNCHANGED explanations
          ELSE IF ~computed
          THEN /\ ejob' = RaiseExplain(f, "attribution", "attribution failed")
               /\ UNCHANGED explanations
          ELSE /\ \E dbOk \in BOOLEAN :
                    explanations' =
                       create_explanation(explanations, f.eid,
                                  explanation_record(f.q, f.method, "completed",
                                      NoText, SampleRows(TestRows, f.sample_size)),
                                  dbOk)
               /\ ejob' = [f EXCEPT !.pc = "done", !.result = "success"]
    /\ scratch' = rmtree(scratch, f.inv)
    /\ UNCHANGED runs
    /\ UNCHANGED notExplain

\* the outer except clause: a record with status 'failed' (errors of that
\* insert are swallowed), then the exception is raised again
ExplainExcept ==
    LET f == ejob IN
    /\ f.pc = "except"
    /\ \E dbOk \in BOOLEAN :
          explanations' =
             create_explanation(explanations, f.eid,
                        explanation_record(f.q, f.method, "failed", f.err, 0),
                        dbOk)
    /\ ejob' = [f EXCEPT !.pc = "done", !.result = "raised"]
    /\ UNCHANGED <<scratch, runs>>
    /\ UNCHANGED notExplain

(***************************************************************************)
(* POST /explanations/local and generate_local_explanation: the endpoint   *)
(* awaits the computation, so its caller is blocked until the frame is     *)
(* done                                                                    *)
(***************************************************************************)
notLocal == <<datasets, models, metrics, explanations, store, runs, pjob,
              tjob, ejob, sqlModels, ctask, qjob, sjob, mtab,
    serving, djob, queued>>

LocalRequest(q, idx) ==
    /\ Free(ljob)
    /\ ljob' = NewLocal(q, idx)
    /\ UNCHANGED scratch
    /\ UNCHANGED notLocal

\* steps 1-3: model row, dataset row, the directory named after the request
LocalCheck ==
    LET f == ljob IN
    /\ f.pc = "check"
    /\ IF get_model(models, f.q) = {}
       THEN /\ ljob' = RaiseExplain(f, "model", "Model not found")
            /\ UNCHANGED scratch
       ELSE \E m \in get_model(models, f.q) :
              IF models[m].dataset_id \notin DOMAIN datasets
              THEN /\ ljob' = RaiseExplain(f, "dataset", "Dataset not found")
                   /\ UNCHANGED scratch
              ELSE /\ ljob' = [f EXCEPT !.pc = "compute"]
                   /\ scratch' = mkdir(scratch, LocalDir(f.q, f.idx))
    /\ UNCHANGED notLocal

\* two unchecked downloads, read_parquet, the index check, the pickled model,
\* the attribution of one row, return, finally
LocalCompute ==
    LET f == ljob IN
    /\ f.pc = "compute"
    /\ \E m \in get_model(models, f.q), ok \in BOOLEAN, computed \in BOOLEAN :
          LET d == models[m].dataset_id IN
          IF ~(ok /\ SplitKey(d, "test") \in store)
          THEN ljob' = RaiseExplain(f, "test_split", "No such file: test.parquet")
          ELSE IF f.idx < 0 \/ f.idx >= TestRows
          THEN ljob' = RaiseExplain(f, "index", "Sample index out of range")
          ELSE IF models[m].model_path \notin store
          THEN ljob' = RaiseExplain(f, "artifact", "No such file: model.pkl")
          ELSE IF ~computed
          THEN ljob' = RaiseExplain(f, "attribution", "attribution failed")
          ELSE ljob' = [f EXCEPT !.pc = "done", !.result = "success",
                                 !.response = "success"]
    /\ scratch' = rmtree(scratch, LocalDir(f.q, f.idx))
    /\ UNCHANGED notLocal

\* the except clause logs and raises; the endpoint answers HTTP 500
LocalExcept ==
    LET f == ljob IN
    /\ f.pc = "except"
    /\ ljob' = [f EXCEPT !.pc = "done", !.result = "raised",
                         !.response = LocalFault(f)]
    /\ UNCHANGED scratch
    /\ UNCHANGED notLocal

(***************************************************************************)
(* Queued task training_tasks.train_model                                  *)
(***************************************************************************)
notTask == <<datasets, explanations, store, scratch, pjob, tjob, ejob, ljob,
            qjob, sjob, mtab,
    serving, djob, queued>>

InvokeTask(mid, d, family) ==
    /\ Invocations(runs) < MaxInvocations
    /\ Free(ctask)
    /\ ctask' = NewTask(mid, d, family)
    /\ runs' = Started(runs, "task")
    /\ UNCHANGED <<models, metrics, sqlModels>>
    /\ UNCHANGED notTask

\* engine and session set-up, then update_status_sync(TRAINING)
TaskBegin ==
    LET f == ctask IN
    /\ f.pc = "begin"
    /\ \/ /\ ctask' = RaiseTask(f, "setup", "database set-up failed")
          /\ UNCHANGED sqlModels
       \/ /\ ctask' = RaiseTask([f EXCEPT !.setup = TRUE], "status",
                                "status update failed")
          /\ UNCHANGED sqlModels
       \/ /\ sqlModels' = update_status_sync(sqlModels, f.mid, "training", NoText)
          /\ ctask' = [f EXCEPT !.pc = "train", !.setup = TRUE,
                                !.writes = Append(@, "training")]
    /\ UNCHANGED <<models, metrics, runs>>
    /\ UNCHANGED notTask

\* registry lookup, local splits, ModelTrainer, fit, evaluate, save, upload
TaskTrain ==
    LET f == ctask IN
    /\ f.pc = "train"
    /\ IF f.ds \notin Registry
       THEN ctask' = RaiseTask(f, "config", "Dataset not found")
       ELSE \E ok \in BOOLEAN :
              ctask' = IF ok THEN [f EXCEPT !.pc = "save"]
                       ELSE RaiseTask(f, "train", "training failed")
    /\ UNCHANGED <<models, metrics, sqlModels, runs>>
    /\ UNCHANGED notTask

\* save_results_sync, then the Supabase inserts inside their own try/except
TaskSave ==
    LET f == ctask IN
    /\ f.pc = "save"
    /\ \/ /\ ctask' = RaiseTask(f, "save", "commit failed")
          /\ UNCHANGED <<models, metrics, sqlModels>>
       \/ /\ sqlModels' = save_results_sync(sqlModels, f.mid)
          /\ \E okModel \in BOOLEAN, okMetrics \in BOOLEAN :
                /\ models' = insert_row(models, f.mid,
                                        model_data(f.ds, f.model_type, f.mid),
                                        okModel)
                /\ metrics' = IF okModel /\ f.mid \notin DOMAIN models
                              THEN insert_model_metrics(metrics, f.mid,
                                                        "training_task", okMetrics)
                              ELSE metrics
          /\ ctask' = [f EXCEPT !.pc = "done", !.result = "success",
                                !.writes = Append(@, "completed")]
    /\ UNCHANGED runs
    /\ UNCHANGED notTask

\* the except clause: update_status_sync(FAILED, str(e)) inside try/except
TaskExcept ==
    LET f == ctask IN
    /\ f.pc = "except"
    /\ \E ok \in BOOLEAN :
          sqlModels' = IF ok /\ f.setup
                       THEN update_status_sync(sqlModels, f.mid, "failed", f.err)
                       ELSE sqlModels
    /\ ctask' = [f EXCEPT !.pc = "done", !.result = "error",
                          !.writes = Append(@, "failed")]
    /\ UNCHANGED <<models, metrics, runs>>
    /\ UNCHANGED notTask

\* ---------------------------------------------------------------------
\* quality evaluation

notQuality == <<datasets, models, metrics, explanations, store, scratch,
                runs, pjob, tjob, ejob, sqlModels, ctask, ljob, sjob,
                mtab,
    serving, djob, queued>>

\* evaluate_explanation_quality: load the model and the test split, take
\* the explanation's feature-importance map; a failing load is re-raised
evaluate_explanation_quality(imp) ==
    /\ Free(qjob)
    /\ \E loaded \in BOOLEAN :
          qjob' = IF loaded
                  THEN [IdleQuality EXCEPT !.pc = "faithfulness",
                                           !.importance = imp]
                  ELSE [IdleQuality EXCEPT !.pc = "done",
                                           !.importance = imp,
                                           !.result = "raised"]
    /\ UNCHANGED notQuality

QualityFaithfulness ==
    /\ qjob.pc = "faithfulness"
    /\ \E raised \in BOOLEAN :
          IF raised
          THEN qjob' = [qjob EXCEPT !.pc = "robustness",
                                    !.faithfulness = FaithfulnessFallback]
          ELSE \E drops \in
                    [1..Len(top_features(qjob.importance)) -> DropValues] :
                  qjob' = [qjob EXCEPT
                      !.pc = "robustness",
                      !.faithfulness =
                          _calculate_faithfulness(qjob.importance, drops)]
    /\ UNCHANGED notQuality

QualityRobustness ==
    /\ qjob.pc = "robustness"
    /\ \E raised \in BOOLEAN :
          IF raised
          THEN qjob' = [qjob EXCEPT !.pc = "complexity",
                                    !.robustness = RobustnessFallback]
          ELSE \E corrs \in CorrRows :
                  qjob' = [qjob EXCEPT
                      !.pc = "complexity",
                      !.robustness = _calculate_robustness(corrs)]
    /\ UNCHANGED notQuality

QualityComplexity ==
    /\ qjob.pc = "complexity"
    /\ qjob' = [qjob EXCEPT
           !.pc = "overall",
           !.complexity = _calculate_complexity(qjob.importance)]
    /\ UNCHANGED notQuality

QualityOverall ==
    /\ qjob.pc = "overall"
    /\ qjob' = [qjob EXCEPT
           !.pc = "done",
           !.result = "success",
           !.overall_quality = overall_quality(qjob.faithfulness,
                                               qjob.robustness,
                                               qjob.complexity)]
    /\ UNCHANGED notQuality

\* QuantusEvaluator.evaluate_all, with the three sub-evaluations' outputs
evaluate_all(monotonicity, stability, sparsity) ==
    /\ Free(qjob)
    /\ LET f == [monotonicity |-> monotonicity]
           r == [stability |-> stability]
           c == [sparsity |-> sparsity]
       IN qjob' = [pc |-> "done", engine |-> "quantus", importance |-> <<>>,
                   faithfulness |-> f, robustness |-> r, complexity |-> c,
                   overall_quality |-> quality_score(f, r, c),
                   result |-> "success"]
    /\ UNCHANGED notQuality

\* ---------------------------------------------------------------------
\* split

notSplit == <<datasets, models, metrics, explanations, store, scratch,
              runs, pjob, tjob, ejob, sqlModels, ctask, ljob, qjob,
              mtab,
    serving, djob, queued>>

\* split(df) is called with a frame of n rows and the configured ratios
split(n, ratios) ==
    /\ Free(sjob)
    /\ sjob' = [IdleSplit EXCEPT !.pc = "shuffle", !.n = n,
                                 !.ratios = ratios]
    /\ UNCHANGED notSplit

SplitShuffle ==
    /\ sjob.pc = "shuffle"
    /\ \E how \in Shuffles :
          sjob' = [sjob EXCEPT !.pc = "slice", !.df = sample(sjob.n, how)]
    /\ UNCHANGED notSplit

SplitSlice ==
    /\ sjob.pc = "slice"
    /\ LET n == Len(sjob.df)
           train_end == int(n, sjob.ratios.train)
           val_end == train_end + int(n, sjob.ratios.val)
       IN sjob' = [sjob EXCEPT
              !.pc = "done",
              !.train = Slice(sjob.df, 0, train_end),
              !.val = Slice(sjob.df, train_end, val_end),
              !.test = Slice(sjob.df, val_end, n)]
    /\ UNCHANGED notSplit

\* ---------------------------------------------------------------------
\* model lookup

notLookup == <<datasets, models, metrics, explanations, store, scratch,
               runs, pjob, tjob, ejob, sqlModels, ctask, ljob, qjob, sjob,
    serving, djob, queued>>

\* SupabaseClient.create_model: a row is added to table models unless its
\* id is already there
create_model(id) ==
    /\ Len(mtab.rows) < MaxModels
    /\ \A i \in 1..Len(mtab.rows) : mtab.rows[i] # id
    /\ mtab' = [mtab EXCEPT !.rows = Append(@, id)]
    /\ UNCHANGED notLookup

\* dal.get_model(q), for a stored id or a stored id followed by "_metrics"
DalGetModel(q) ==
    /\ mtab' = [mtab EXCEPT !.q = q, !.found = dal_get_model(mtab.rows, q)]
    /\ UNCHANGED notLookup

\* dataset processing with two concurrent background jobs
(***************************************************************************)
(* POST /explanations/local: generate_local_explanation runs in a worker   *)
(* thread, the endpoint waits at most 30 s for it                          *)
(***************************************************************************)
notServing == <<datasets, models, metrics, explanations, store, scratch,
                runs, pjob, tjob, ejob, sqlModels, ctask, ljob, qjob, sjob,
                mtab, djob, queued>>

ServeLocal(j, q, idx) ==
    /\ Answered(req[j])
    /\ req' = [req EXCEPT ![j] = NewServe(q, idx)]
    /\ UNCHANGED <<tmp, _explainer_cache>>
    /\ UNCHANGED notServing

\* steps 1-3: model row, dataset row, mkdir(exist_ok=True); a ValueError
\* here is raised outside the try that owns the finally
ServeCheck(j) ==
    LET f == req[j] IN
    /\ f.pc = "check"
    /\ IF get_model(models, f.q) = {}
       THEN req' = [req EXCEPT ![j] = [f EXCEPT !.pc = "except",
                                                  !.err = "Model not found"]]
       ELSE \E m \in get_model(models, f.q) :
              IF models[m].dataset_id \notin DOMAIN datasets
              THEN req' = [req EXCEPT ![j] =
                               [f EXCEPT !.pc = "except",
                                         !.err = "Dataset not found"]]
              ELSE req' = [req EXCEPT ![j] = [f EXCEPT !.pc = "download"]]
    /\ UNCHANGED <<tmp, _explainer_cache>>
    /\ UNCHANGED notServing

\* the two downloads into temp_dir, neither result looked at
ServeDownload(j) ==
    LET f == req[j]
        dir == LocalDir(f.q, f.idx)
    IN
    /\ f.pc = "download"
    /\ \E m \in get_model(models, f.q), okModel \in BOOLEAN,
          okTest \in BOOLEAN :
          LET got == download_file(
                        download_file({}, store, models[m].model_path,
                                      <<dir, "model.pkl">>, okModel),
                        store, SplitKey(models[m].dataset_id, "test"),
                        <<dir, "test.parquet">>, okTest)
          IN /\ tmp' = tmp \cup got
             /\ req' = [req EXCEPT ![j] =
                            [f EXCEPT !.pc = "load",
                                      !.fetched = {path[2] : path \in got}]]
    /\ UNCHANGED _explainer_cache
    /\ UNCHANGED notServing

\* pd.read_parquet(test_data_path), the index check, open(model_path)
ServeLoad(j) ==
    LET f == req[j]
        dir == LocalDir(f.q, f.idx)
        raise(text) == [f EXCEPT !.pc = "finally", !.fetched = {},
                                 !.err = text]
    IN
    /\ f.pc = "load"
    /\ req' = [req EXCEPT ![j] =
                  IF <<dir, "test.parquet">> \notin tmp
                  THEN raise("No such file: test.parquet")
                  ELSE IF f.idx < 0 \/ f.idx >= TestRows
                  THEN raise("Sample index out of range")
                  ELSE IF <<dir, "model.pkl">> \notin tmp
                  THEN raise("No such file: model.pkl")
                  ELSE [f EXCEPT !.pc = "explain", !.fetched = {}]]
    /\ UNCHANGED <<tmp, _explainer_cache>>
    /\ UNCHANGED notServing

\* the explainer, from the cache or built and stored, then shap_values on the
\* one row
ServeExplain(j) ==
    LET f == req[j] IN
    /\ f.pc = "explain"
    /\ \E m \in get_model(models, f.q), built \in BOOLEAN,
          computed \in BOOLEAN :
          LET key == cache_key(f.q, models[m].model_type) IN
          IF key \in _explainer_cache
          THEN /\ req' = [req EXCEPT ![j] =
                              [f EXCEPT !.pc = "finally",
                                        !.explainer = "cached",
                                        !.err = IF computed THEN NoText
                                                ELSE "attribution failed"]]
               /\ UNCHANGED _explainer_cache
          ELSE IF ~built
          THEN /\ req' = [req EXCEPT ![j] =
                              [f EXCEPT !.pc = "finally",
                                        !.err = "explainer failed"]]
               /\ UNCHANGED _explainer_cache
          ELSE /\ req' = [req EXCEPT ![j] =
                              [f EXCEPT !.pc = "finally",
                                        !.explainer = "built",
                                        !.err = IF computed THEN NoText
                                                ELSE "attribution failed"]]
               /\ _explainer_cache' = cache_store(_explainer_cache, key)
    /\ UNCHANGED tmp
    /\ UNCHANGED notServing

\* finally: rmtree(temp_dir); then the return value reaches the endpoint, or
\* the exception goes on to the outer except clause
ServeFinally(j) ==
    LET f == req[j] IN
    /\ f.pc = "finally"
    /\ tmp' = rmtree_files(tmp, LocalDir(f.q, f.idx))
    /\ req' = [req EXCEPT ![j] =
                  IF f.err = NoText
                  THEN [f EXCEPT !.pc = "done", !.result = "success",
                                 !.response = answer(f, "success")]
                  ELSE [f EXCEPT !.pc = "except"]]
    /\ UNCHANGED _explainer_cache
    /\ UNCHANGED notServing

\* except Exception: log, raise; the endpoint answers HTTP 500
ServeExcept(j) ==
    LET f == req[j] IN
    /\ f.pc = "except"
    /\ req' = [req EXCEPT ![j] =
                  [f EXCEPT !.pc = "done", !.result = "raised",
                            !.response = answer(f, "error")]]
    /\ UNCHANGED <<tmp, _explainer_cache>>
    /\ UNCHANGED notServing

\* 30 s pass before the thread has returned: HTTP 504
ServeTimeout(j) ==
    LET f == req[j] IN
    /\ f.kind = "local"
    /\ f.pc \notin {"idle", "done"}
    /\ f.response = "none"
    /\ req' = [req EXCEPT ![j] = wait_for_timeout(f)]
    /\ UNCHANGED <<tmp, _explainer_cache>>
    /\ UNCHANGED notServing

(***************************************************************************)
(* POST /explanations/{explanation_id}/evaluate-quality: the endpoint      *)
(* downloads, then waits at most 60 s for the evaluation in a worker       *)
(* thread, then removes the directory                                      *)
(***************************************************************************)
\* the three lookups (HTTP 404), mkdir, the two downloads, and the thread is
\* handed the two paths; no await in between
EvalRequest(j, eid) ==
    LET notFound == [IdleEval EXCEPT !.pc = "done", !.eid = eid,
                                     !.result = "not_found",
                                     !.response = "error"]
    IN
    /\ Answered(req[j])
    /\ IF eid \notin DOMAIN explanations
          \/ get_model(models, explanations[eid].model_id) = {}
       THEN /\ req' = [req EXCEPT ![j] = notFound]
            /\ UNCHANGED tmp
       ELSE \E m \in get_model(models, explanations[eid].model_id),
               okModel \in BOOLEAN, okTest \in BOOLEAN :
              IF models[m].dataset_id \notin DOMAIN datasets
              THEN /\ req' = [req EXCEPT ![j] = notFound]
                   /\ UNCHANGED tmp
              ELSE LET dir == EvalDir(eid)
                       got == download_file(
                                 download_file({}, store,
                                               models[m].model_path,
                                               <<dir, "model.pkl">>, okModel),
                                 store,
                                 SplitKey(models[m].dataset_id, "test"),
                                 <<dir, "test.parquet">>, okTest)
                   IN /\ tmp' = tmp \cup got
                      /\ req' = [req EXCEPT ![j] =
                                    [IdleEval EXCEPT
                                        !.pc = "eval_load", !.eid = eid,
                                        !.fetched = {path[2] : path \in got}]]
    /\ UNCHANGED _explainer_cache
    /\ UNCHANGED notServing

\* evaluate_explanation_quality in its thread: pickle.load(open(model_path)),
\* pd.read_parquet(test_data_path); an exception is logged and raised
EvalLoad(j) ==
    LET f == req[j]
        dir == EvalDir(f.eid)
        raise(text) == [f EXCEPT !.pc = "done", !.fetched = {},
                                 !.result = "raised", !.err = text]
    IN
    /\ f.pc = "eval_load"
    /\ req' = [req EXCEPT ![j] =
                  IF <<dir, "model.pkl">> \notin tmp
                  THEN raise("No such file: model.pkl")
                  ELSE IF <<dir, "test.parquet">> \notin tmp
                  THEN raise("No such file: test.parquet")
                  ELSE [f EXCEPT !.pc = "eval_compute", !.fetched = {}]]
    /\ UNCHANGED <<tmp, _explainer_cache>>
    /\ UNCHANGED notServing

\* the three metrics and the overall score, or an exception on the way
EvalCompute(j) ==
    LET f == req[j] IN
    /\ f.pc = "eval_compute"
    /\ \E computed \in BOOLEAN :
          req' = [req EXCEPT ![j] =
                     IF computed
                     THEN [f EXCEPT !.pc = "done", !.result = "success"]
                     ELSE [f EXCEPT !.pc = "done", !.result = "raised",
                                    !.err = "evaluation failed"]]
    /\ UNCHANGED <<tmp, _explainer_cache>>
    /\ UNCHANGED notServing

\* the await returns or raises within 60 s: finally rmtree, HTTP 200 or 500
EvalAnswer(j) ==
    LET f == req[j] IN
    /\ f.kind = "eval"
    /\ f.pc = "done"
    /\ f.response = "none"
    /\ req' = [req EXCEPT ![j] =
                  [f EXCEPT !.response = IF f.result = "success"
                                         THEN "success" ELSE "error"]]
    /\ tmp' = rmtree_files(tmp, EvalDir(f.eid))
    /\ UNCHANGED _explainer_cache
    /\ UNCHANGED notServing

\* 60 s pass before the thread has returned: finally rmtree, HTTP 504
EvalTimeout(j) ==
    LET f == req[j] IN
    /\ f.pc \in {"eval_load", "eval_compute"}
    /\ f.response = "none"
    /\ req' = [req EXCEPT ![j] = wait_for_timeout(f)]
    /\ tmp' = rmtree_files(tmp, EvalDir(f.eid))
    /\ UNCHANGED _explainer_cache
    /\ UNCHANGED notServing

(***************************************************************************)
(* DELETE /models/{model_id} and DataAccessLayer.delete_model              *)
(***************************************************************************)
notDelete == <<datasets, store, scratch, runs, pjob, tjob, ejob, sqlModels,
               ctask, ljob, qjob, sjob, mtab, serving, queued>>

\* the endpoint: 404 without a model row for the id; the deletions of the
\* explanations and of the metrics each in a try of its own, then the model
\* row, whose exception alone reaches the outer except clause (HTTP 500)
DeleteModelRequest(q) ==
    LET base == replace_metrics(q) IN
    IF get_model(models, base) = {}
    THEN /\ djob' = [q |-> q, base |-> base, via |-> "endpoint",
                     response |-> "not_found"]
         /\ UNCHANGED <<models, metrics, explanations>>
         /\ UNCHANGED notDelete
    ELSE \E okExplanations \in BOOLEAN, okMetrics \in BOOLEAN,
            okModel \in BOOLEAN :
           /\ explanations' =
                 delete_explanations(explanations, base, okExplanations)
           /\ metrics' = delete_metrics(metrics, base, okMetrics)
           /\ models' = delete_row(models, base, okModel)
           /\ djob' = [q |-> q, base |-> base, via |-> "endpoint",
                       response |-> IF okModel THEN "success" ELSE "error"]
           /\ UNCHANGED notDelete

\* the data access layer: the three deletions in one try, the first
\* exception ends them and False is returned
delete_model(q) ==
    LET base == replace_metrics(q) IN
    \E okExplanations \in BOOLEAN, okMetrics \in BOOLEAN,
       okModel \in BOOLEAN :
       LET reachedMetrics == okExplanations
           reachedModel == reachedMetrics /\ okMetrics
       IN
       /\ explanations' =
             delete_explanations(explanations, base, okExplanations)
       /\ metrics' = delete_metrics(metrics, base,
                                    reachedMetrics /\ okMetrics)
       /\ models' = delete_row(models, base, reachedModel /\ okModel)
       /\ djob' = [q |-> q, base |-> base, via |-> "dal",
                   response |-> IF reachedModel /\ okModel THEN "success"
                                ELSE "error"]
       /\ UNCHANGED notDelete

(***************************************************************************)
(* explanation_tasks.generate_explanation                                  *)
(***************************************************************************)
notQueued == <<datasets, models, metrics, store, scratch, runs, pjob, tjob,
               ejob, sqlModels, ctask, ljob, qjob, sjob, mtab, serving,
               djob>>

\* the task is queued for a new explanation id; its Redis entry may or may
\* not have been written
GenEnqueue(eid, method) ==
    /\ gtask[eid].pc = "idle"
    /\ gtask' = [gtask EXCEPT ![eid] = [IdleGen EXCEPT !.pc = "begin",
                                                       !.method = method]]
    /\ \E stored \in BOOLEAN :
          redis' = IF stored THEN setex_new(redis, ExplanationKey(eid))
                   ELSE redis
    /\ UNCHANGED <<vtask, explanations>>
    /\ UNCHANGED notQueued

\* Redis connection, status 'processing', the Model row, the model file, the
\* registry entry, the splits
GenBegin(eid) ==
    LET f == gtask[eid] IN
    /\ f.pc = "begin"
    /\ \/ /\ gtask' = [gtask EXCEPT ![eid] =
                         [f EXCEPT !.pc = "except", !.err = "redis"]]
          /\ UNCHANGED redis
       \/ /\ redis' = set_status(redis, ExplanationKey(eid), "processing")
          /\ \/ gtask' = [gtask EXCEPT ![eid] = [f EXCEPT !.pc = "explain"]]
             \/ gtask' = [gtask EXCEPT ![eid] =
                            [f EXCEPT !.pc = "except",
                                      !.err = "Model not found"]]
    /\ UNCHANGED <<vtask, explanations>>
    /\ UNCHANGED notQueued

\* the explainer of the method, or ValueError for any other method
GenExplain(eid) ==
    LET f == gtask[eid] IN
    /\ f.pc = "explain"
    /\ IF f.method \notin SupportedMethods
       THEN gtask' = [gtask EXCEPT ![eid] =
                        [f EXCEPT !.pc = "except",
                                  !.err = "Unsupported explanation method"]]
       ELSE \E computed \in BOOLEAN :
               gtask' = [gtask EXCEPT ![eid] =
                           IF computed THEN [f EXCEPT !.pc = "save"]
                           ELSE [f EXCEPT !.pc = "except",
                                          !.err = "attribution failed"]]
    /\ UNCHANGED <<redis, vtask, explanations>>
    /\ UNCHANGED notQueued

\* status 'completed' with the result in Redis, then the row in the
\* metadata store, whose failure is logged only; return
GenSave(eid) ==
    LET f == gtask[eid] IN
    /\ f.pc = "save"
    /\ \/ /\ gtask' = [gtask EXCEPT ![eid] =
                         [f EXCEPT !.pc = "except", !.err = "redis"]]
          /\ UNCHANGED <<redis, explanations>>
       \/ /\ redis' = set_status(redis, ExplanationKey(eid), "completed")
          /\ \E ok \in BOOLEAN :
                explanations' =
                   insert_row(explanations, <<eid>>,
                              explanation_record(<<"m1">>, f.method,
                                                 "completed", NoText,
                                                 TestRows),
                              ok)
          /\ gtask' = [gtask EXCEPT ![eid] =
                         [f EXCEPT !.pc = "done", !.result = "success"]]
    /\ UNCHANGED vtask
    /\ UNCHANGED notQueued

\* except Exception: log, return the error dict
GenExcept(eid) ==
    LET f == gtask[eid] IN
    /\ f.pc = "except"
    /\ gtask' = [gtask EXCEPT ![eid] =
                   [f EXCEPT !.pc = "done", !.result = "error"]]
    /\ UNCHANGED <<redis, vtask, explanations>>
    /\ UNCHANGED notQueued

(***************************************************************************)
(* explanation_tasks.evaluate_explanation_quality_task                     *)
(***************************************************************************)
QualEnqueue(ev, eid) ==
    /\ vtask[ev].pc = "idle"
    /\ vtask' = [vtask EXCEPT ![ev] = [IdleEvalTask EXCEPT !.pc = "begin",
                                                           !.eid = eid]]
    /\ \E stored \in BOOLEAN :
          redis' = IF stored THEN setex_new(redis, EvalKey(ev)) ELSE redis
    /\ UNCHANGED <<gtask, explanations>>
    /\ UNCHANGED notQueued

\* Redis connection, status 'processing', the explanation entry and its
\* result, the Model row, the model file, the splits
QualBegin(ev) ==
    LET f == vtask[ev]
        key == ExplanationKey(f.eid)
    IN
    /\ f.pc = "begin"
    /\ \/ /\ vtask' = [vtask EXCEPT ![ev] =
                         [f EXCEPT !.pc = "except", !.err = "redis"]]
          /\ UNCHANGED redis
       \/ /\ redis' = set_status(redis, EvalKey(ev), "processing")
          /\ IF key \notin DOMAIN redis
             THEN vtask' = [vtask EXCEPT ![ev] =
                              [f EXCEPT !.pc = "except",
                                        !.err = "Explanation not found"]]
             ELSE IF redis[key] # "completed"
             THEN vtask' = [vtask EXCEPT ![ev] =
                              [f EXCEPT !.pc = "except",
                                        !.err = "KeyError: result"]]
             ELSE \/ vtask' = [vtask EXCEPT ![ev] =
                                 [f EXCEPT !.pc = "evaluate"]]
                  \/ vtask' = [vtask EXCEPT ![ev] =
                                 [f EXCEPT !.pc = "except",
                                           !.err = "Model not found"]]
    /\ UNCHANGED <<gtask, explanations>>
    /\ UNCHANGED notQueued

\* QuantusEvaluator.evaluate_all, status 'completed' with the result, return
QualEvaluate(ev) ==
    LET f == vtask[ev] IN
    /\ f.pc = "evaluate"
    /\ \/ /\ \E text \in {"evaluation failed", "redis"} :
                vtask' = [vtask EXCEPT ![ev] =
                            [f EXCEPT !.pc = "except", !.err = text]]
          /\ UNCHANGED redis
       \/ /\ redis' = set_status(redis, EvalKey(ev), "completed")
          /\ vtask' = [vtask EXCEPT ![ev] =
                         [f EXCEPT !.pc = "done", !.result = "success"]]
    /\ UNCHANGED <<gtask, explanations>>
    /\ UNCHANGED notQueued

\* except Exception: status 'failed' with str(e) inside try/except: pass,
\* return the error dict
QualExcept(ev) ==
    LET f == vtask[ev] IN
    /\ f.pc = "except"
    /\ \E redisOk \in BOOLEAN :
          redis' = IF redisOk THEN set_status(redis, EvalKey(ev), "failed")
                   ELSE redis
    /\ vtask' = [vtask EXCEPT ![ev] =
                   [f EXCEPT !.pc = "done", !.result = "error"]]
    /\ UNCHANGED <<gtask, explanations>>
    /\ UNCHANGED notQueued

Next ==
    \/ \E j \in ProcJobs, d \in DatasetIds : PreprocessRequest(j, d)
    \/ \E j \in ProcJobs, d \in DatasetIds : InvokeProcess(j, d)
    \/ \E j \in ProcJobs : ProcBegin(j)
    \/ \E j \in ProcJobs : ProcPrepare(j)
    \/ \E j \in ProcJobs, i \in 1..Len(Splits) : ProcUpload(j, i)
    \/ \E j \in ProcJobs : ProcFinish(j)
    \/ \E j \in ProcJobs : ProcExcept(j)
    \/ \E j \in ProcJobs : ProcCrash(j)

Spec == Init /\ [][Next]_vars

\* one processing job, as the later stages see it
NextProcessOne ==
    \/ \E d \in DatasetIds : PreprocessRequest("p1", d)
    \/ \E d \in DatasetIds : InvokeProcess("p1", d)
    \/ ProcBegin("p1")
    \/ ProcPrepare("p1")
    \/ \E i \in 1..Len(Splits) : ProcUpload("p1", i)
    \/ ProcFinish("p1")
    \/ ProcExcept("p1")

NextTrainService ==
    \/ \E d \in DatasetIds, family \in ModelTypes : TrainRequest(d, family)
    \/ \E d \in DatasetIds, family \in ModelTypes : InvokeTrain(d, family)
    \/ TrainCheck
    \/ TrainLoad
    \/ TrainFit
    \/ TrainUpload
    \/ TrainRecord
    \/ TrainMetrics
    \/ TrainShap
    \/ TrainExcept

NextExplain ==
    \/ \E q \in ModelQueries, method \in Methods, s \in SampleSizes :
          ExplanationRequest(q, method, s)
    \/ \E q \in ModelQueries, method \in Methods, s \in SampleSizes :
          InvokeExplain(q, method, s)
    \/ ExplainCheck
    \/ ExplainDownload
    \/ ExplainCompute
    \/ ExplainExcept

NextTask ==
    \/ \E mid \in TaskModelIds, d \in DatasetIds, family \in ModelTypes :
          InvokeTask(mid, d, family)
    \/ TaskBegin
    \/ TaskTrain
    \/ TaskSave
    \/ TaskExcept

\* dataset processing and the training service
NextTrain == NextProcessOne \/ NextTrainService
SpecTrain == Init /\ [][NextTrain]_vars

NextLocal ==
    \/ \E q \in ModelQueries, idx \in SampleIndexes : LocalRequest(q, idx)
    \/ LocalCheck
    \/ LocalCompute
    \/ LocalExcept

\* dataset processing, the training service and the explanation service
NextPipeline == NextProcessOne \/ NextTrainService \/ NextExplain
SpecPipeline == Init /\ [][NextPipeline]_vars

\* the state after process_dataset("d1") and train_model("d1",
\* "random_forest") have both returned success: the artifact upload may have
\* returned False and the automatic SHAP explanation may not have been saved
TrainedModel == ModelId("d1", "random_forest", <<"train", 1>>)
InitTrained ==
    /\ datasets = [d \in {"d1"} |-> Merge(CompletedUpdate("d1"), PendingRow)]
    /\ \E okUpload \in BOOLEAN :
          store = upload_file(SplitKeys("d1"),
                              r2_model_path("d1", TrainedModel), okUpload)
    /\ scratch = {}
    /\ runs = [k \in JobKinds |->
                  IF k \in {"process", "train"} THEN 1 ELSE 0]
    /\ pjob = [j \in ProcJobs |->
                  IF j = "p1"
                  THEN [NewProc("d1", <<"process", 1>>) EXCEPT
                           !.pc = "done", !.result = "success",
                           !.writes = <<"processing", "completed">>,
                           !.ack = TRUE]
                  ELSE IdleProc]
    /\ models = [m \in {TrainedModel} |->
                    model_data("d1", "random_forest", TrainedModel)]
    /\ metrics = save_model_metrics({}, TrainedModel, "model_service", TRUE)
    /\ \E outcome \in {"ok", "save_failed"} :
          /\ explanations =
                insert_row(<<>>, ExplanationId(TrainedModel, "auto_shap",
                                               <<"train", 1>>),
                           explanation_record(TrainedModel, "shap", "completed",
                                              NoText, AutoSampleRows(TestRows)),
                           outcome = "ok")
          /\ tjob = [NewTrain("d1", "random_forest", <<"train", 1>>) EXCEPT
                        !.pc = "done", !.dsSeen = "completed", !.fitted = TRUE,
                        !.uploaded = TRUE, !.recorded = TRUE,
                        !.writes = <<"completed">>, !.shap = outcome,
                        !.result = AutoShapResult(outcome)]
    /\ ejob = IdleExplain
    /\ sqlModels = [m \in TaskModelIds |-> PendingModel]
    /\ ctask = IdleTask
    /\ ljob = IdleLocal
    /\ qjob = IdleQuality
    /\ sjob = IdleSplit
    /\ mtab = IdleLookup
    /\ req = [j \in ServeJobs |-> IdleServe]
    /\ tmp = {}
    /\ _explainer_cache = {}
    /\ djob = IdleDelete
    /\ redis = <<>>
    /\ gtask = [eid \in QueuedExplanations |-> IdleGen]
    /\ vtask = [ev \in QueuedEvaluations |-> IdleEvalTask]

\* training runs and repeated metrics saves on a trained model
NextMetrics ==
    \/ NextTrainService
    \/ \E m \in DOMAIN models : SaveMetrics(m)
SpecMetrics == InitTrained /\ [][NextMetrics]_vars

\* the two explanation paths on a trained model
NextExplainPaths == NextExplain \/ NextLocal
SpecExplain == InitTrained /\ [][NextExplainPaths]_vars

\* dataset processing and both training paths
NextStatus == NextProcessOne \/ NextTrainService \/ NextTask
SpecStatus == Init /\ [][NextStatus]_vars

\* the quality evaluations alone
NextQuality ==
    \/ \E imp \in ImportanceMaps : evaluate_explanation_quality(imp)
    \/ QualityFaithfulness
    \/ QualityRobustness
    \/ QualityComplexity
    \/ QualityOverall
    \/ \E m \in QuantusValues, s \in QuantusValues, sp \in QuantusValues :
          evaluate_all(m, s, sp)
SpecQuality == Init /\ [][NextQuality]_vars

\* split alone
NextSplit ==
    \/ \E n \in 0..MaxRows, ratios \in SplitRatios : split(n, ratios)
    \/ SplitShuffle
    \/ SplitSlice
SpecSplit == Init /\ [][NextSplit]_vars

\* model lookups alone
NextLookup ==
    \/ \E id \in StoredIds : create_model(id)
    \/ \E i \in 1..Len(mtab.rows), suffixed \in BOOLEAN :
          DalGetModel(IF suffixed THEN Append(mtab.rows[i], MetricsSuffix)
                      ELSE mtab.rows[i])
SpecLookup == Init /\ [][NextLookup]_vars

\* dataset processing as the endpoint alone starts it: POST
\* /datasets/{id}/preprocess and the background jobs it schedules
NextTriggers ==
    \/ \E j \in ProcJobs, d \in DatasetIds : PreprocessRequest(j, d)
    \/ \E j \in ProcJobs : ProcBegin(j)
    \/ \E j \in ProcJobs : ProcPrepare(j)
    \/ \E j \in ProcJobs, i \in 1..Len(Splits) : ProcUpload(j, i)
    \/ \E j \in ProcJobs : ProcFinish(j)
    \/ \E j \in ProcJobs : ProcExcept(j)
SpecTriggers == Init /\ [][NextTriggers]_vars

\* the model ids of the stored models: one is a prefix of the other
DeletableIds == {<<"m1">>, <<"m1", "x">>, <<"m2">>}
\* a metadata store with three models, each with its metrics row and one
\* completed explanation
InitStored ==
    /\ datasets = [d \in {"d1"} |-> Merge(CompletedUpdate("d1"), PendingRow)]
    /\ store = SplitKeys("d1")
    /\ scratch = {}
    /\ runs = [k \in JobKinds |-> 0]
    /\ pjob = [j \in ProcJobs |-> IdleProc]
    /\ models = [m \in DeletableIds |-> model_data("d1", "random_forest", m)]
    /\ metrics = {MetricsRow(m, "model_service") : m \in DeletableIds}
    /\ explanations =
          [e \in {ExplanationId(m, "shap", <<"explain", 1>>) :
                     m \in DeletableIds} |->
              explanation_record(e[1], "shap", "completed", NoText,
                                 AutoSampleRows(TestRows))]
    /\ tjob = IdleTrain
    /\ ejob = IdleExplain
    /\ sqlModels = [m \in TaskModelIds |-> PendingModel]
    /\ ctask = IdleTask
    /\ ljob = IdleLocal
    /\ qjob = IdleQuality
    /\ sjob = IdleSplit
    /\ mtab = IdleLookup
    /\ req = [j \in ServeJobs |-> IdleServe]
    /\ tmp = {}
    /\ _explainer_cache = {}
    /\ djob = IdleDelete
    /\ redis = <<>>
    /\ gtask = [eid \in QueuedExplanations |-> IdleGen]
    /\ vtask = [ev \in QueuedEvaluations |-> IdleEvalTask]

\* the ids callers pass: a stored id, with or without the '_metrics' suffix
DeleteQueries ==
    DeletableIds \cup {Append(m, MetricsSuffix) : m \in DeletableIds}

NextDelete ==
    \/ \E q \in DeleteQueries : DeleteModelRequest(q)
    \/ \E q \in DeleteQueries : delete_model(q)
SpecDelete == InitStored /\ [][NextDelete]_vars

\* the steps of the queued explanation tasks
QueuedSteps ==
    \/ \E eid \in QueuedExplanations : GenBegin(eid)
    \/ \E eid \in QueuedExplanations : GenExplain(eid)
    \/ \E eid \in QueuedExplanations : GenSave(eid)
    \/ \E eid \in QueuedExplanations : GenExcept(eid)
    \/ \E ev \in QueuedEvaluations : QualBegin(ev)
    \/ \E ev \in QueuedEvaluations : QualEvaluate(ev)
    \/ \E ev \in QueuedEvaluations : QualExcept(ev)
NextQueued ==
    \/ \E eid \in QueuedExplanations, method \in Methods :
          GenEnqueue(eid, method)
    \/ \E ev \in QueuedEvaluations, eid \in QueuedExplanations :
          QualEnqueue(ev, eid)
    \/ QueuedSteps
SpecQueued == Init /\ [][NextQueued]_vars
\* a worker takes every queued task and runs it to its return: no task waits
\* or stops between two steps for ever
SpecQueuedFair ==
    /\ SpecQueued
    /\ \A eid \in QueuedExplanations :
          WF_vars(GenBegin(eid) \/ GenExplain(eid) \/ GenSave(eid)
                     \/ GenExcept(eid))
    /\ \A ev \in QueuedEvaluations :
          WF_vars(QualBegin(ev) \/ QualEvaluate(ev) \/ QualExcept(ev))

\* the explanation ids of the stored explanations, which callers pass
EvalIds == {ExplanationId(TrainedModel, "auto_shap", <<"train", 1>>),
            ExplanationId(LinearModel, "shap", <<"explain", 1>>)}

\* a serving process with two registered models, a tree ensemble trained by
\* the service and a linear model registered by the training script, each
\* with its artifact in the object store and a stored explanation
InitServing ==
    /\ datasets = [d \in {"d1"} |-> Merge(CompletedUpdate("d1"), PendingRow)]
    /\ store = upload_file(
                  upload_file(SplitKeys("d1"),
                              r2_model_path("d1", TrainedModel), TRUE),
                  r2_model_path("d1", LinearModel), TRUE)
    /\ scratch = {}
    /\ runs = [k \in JobKinds |->
                  IF k \in {"process", "train"} THEN 1 ELSE 0]
    /\ pjob = [j \in ProcJobs |->
                  IF j = "p1"
                  THEN [NewProc("d1", <<"process", 1>>) EXCEPT
                           !.pc = "done", !.result = "success",
                           !.writes = <<"processing", "completed">>,
                           !.ack = TRUE]
                  ELSE IdleProc]
    /\ models = [m \in {TrainedModel, LinearModel} |->
                    model_data("d1", m[2], m)]
    /\ metrics = save_model_metrics({}, TrainedModel, "model_service", TRUE)
    /\ explanations =
          [eid \in EvalIds |->
              explanation_record(eid[1], "shap", "completed", NoText,
                                 AutoSampleRows(TestRows))]
    /\ tjob = [NewTrain("d1", "random_forest", <<"train", 1>>) EXCEPT
                  !.pc = "done", !.dsSeen = "completed", !.fitted = TRUE,
                  !.uploaded = TRUE, !.recorded = TRUE,
                  !.writes = <<"completed">>, !.shap = "ok",
                  !.result = AutoShapResult("ok")]
    /\ ejob = IdleExplain
    /\ sqlModels = [m \in TaskModelIds |-> PendingModel]
    /\ ctask = IdleTask
    /\ ljob = IdleLocal
    /\ qjob = IdleQuality
    /\ sjob = IdleSplit
    /\ mtab = IdleLookup
    /\ req = [j \in ServeJobs |-> IdleServe]
    /\ tmp = {}
    /\ _explainer_cache = {}
    /\ djob = IdleDelete
    /\ redis = <<>>
    /\ gtask = [eid \in QueuedExplanations |-> IdleGen]
    /\ vtask = [ev \in QueuedEvaluations |-> IdleEvalTask]

\* the model ids and sample indexes callers of POST /explanations/local pass
ServedQueries == {TrainedModel, LinearModel}

NextServing ==
    \/ \E j \in ServeJobs, q \in ServedQueries, idx \in SampleIndexes :
          ServeLocal(j, q, idx)
    \/ \E j \in ServeJobs : ServeCheck(j)
    \/ \E j \in ServeJobs : ServeDownload(j)
    \/ \E j \in ServeJobs : ServeLoad(j)
    \/ \E j \in ServeJobs : ServeExplain(j)
    \/ \E j \in ServeJobs : ServeFinally(j)
    \/ \E j \in ServeJobs : ServeExcept(j)
    \/ \E j \in ServeJobs : ServeTimeout(j)
    \/ \E j \in ServeJobs, eid \in EvalIds : EvalRequest(j, eid)
    \/ \E j \in ServeJobs : EvalLoad(j)
    \/ \E j \in ServeJobs : EvalCompute(j)
    \/ \E j \in ServeJobs : EvalAnswer(j)
    \/ \E j \in ServeJobs : EvalTimeout(j)
SpecServing == InitServing /\ [][NextServing]_vars

(***************************************************************************)
(* Properties                                                              *)
(***************************************************************************)
\* C1: in every reachable state of concurrent dataset processing (uploads
\* that return False and jobs that die between two uploads included), a
\* Dataset row whose status is 'completed' has all three of its split files
\* in the object store.
C1_CompletedHasSplits ==
    \A d \in DOMAIN datasets :
        datasets[d].status = "completed" => SplitKeys(d) \subseteq store

\* a Dataset is completed although another job for it lost an upload or died
C1_Witness ==
    \E d \in DOMAIN datasets, j \in ProcJobs :
        /\ datasets[d].status = "completed"
        /\ SplitKeys(d) \subseteq store
        /\ pjob[j].ds = d
        /\ pjob[j].pc = "crashed" \/ ~pjob[j].up

\* C2: once no training run is in progress, every Model row with status
\* 'completed' has a Metrics row, also after runs whose metrics write failed.
C2_CompletedHasMetrics ==
    Free(tjob) =>
        \A m \in DOMAIN models :
            models[m].status = "completed" => HasMetrics(metrics, m)

\* C3: every Model row with status 'completed' has its serialized artifact
\* in the object store, also after a run whose artifact upload returned False.
C3_CompletedHasArtifact ==
    \A m \in DOMAIN models :
        models[m].status = "completed" => models[m].model_path \in store

\* C4: a train_model invocation that raised before its records were written
\* leaves the Model row of that run with status 'failed' and the error text.
C4_FailedModelOnError ==
    (tjob.pc = "done" /\ tjob.result = "error" /\ ~tjob.recorded) =>
        /\ tjob.mid \in DOMAIN models
        /\ models[tjob.mid].status = "failed"
        /\ models[tjob.mid].error_message = tjob.err

\* C5: when process_dataset returns after its fetch, clean, split, upload or
\* statistics step raised, the Dataset row has status 'failed' and the error
\* text, and the invocation never wrote 'completed'.
C5_FailedOnStepError ==
    [][\A j \in ProcJobs :
          (/\ pjob[j].pc = "except"
           /\ pjob'[j].pc = "done"
           /\ pjob[j].raisedIn \in {"fetch", "clean", "split", "storage",
                                    "upload", "stats"}
           /\ pjob[j].ds \in DOMAIN datasets)
          => /\ datasets'[pjob[j].ds].status = "failed"
             /\ datasets'[pjob[j].ds].error_message = pjob[j].err
             /\ \A i \in 1..Len(pjob'[j].writes) :
                   pjob'[j].writes[i] # "completed"]_vars

\* C6: train_model fits, uploads or records only for a completed Dataset and
\* a supported family; any other request ends with a validation error and
\* without a Model row.
C6_ValidatedBeforeWork ==
    LET valid == tjob.dsSeen = "completed" /\ tjob.model_type \in SupportedModels
    IN  /\ (tjob.fitted \/ tjob.uploaded \/ tjob.recorded) => valid
        /\ (tjob.pc = "done" /\ ~valid) =>
              /\ tjob.result = "error"
              /\ tjob.errKind = "ValueError"
              /\ tjob.mid \notin DOMAIN models

\* C7 as stated: process_dataset with an id that has no configuration lets
\* the not-found error propagate to its caller and issues no write.
C7_NotFoundPropagates ==
    \A j \in ProcJobs :
        (pjob[j].pc = "done" /\ pjob[j].raisedIn = "config") =>
            /\ pjob[j].result = "raised"
            /\ pjob[j].writes = <<>>

\* C7, amended: process_dataset with an id that has no configuration returns
\* an error result carrying the not-found text; the only write it issues is
\* the 'failed' status update of its except clause, it never writes
\* 'processing' or 'completed', uploads nothing and creates no scratch
\* directory.
C7_NotFoundReturnsError ==
    \A j \in ProcJobs :
        (pjob[j].pc = "done" /\ pjob[j].raisedIn = "config") =>
            /\ pjob[j].result = "error"
            /\ pjob[j].err = ErrText("config")
            /\ pjob[j].writes = <<"failed">>
            /\ pjob[j].inv \notin scratch
            /\ SplitKeys(pjob[j].ds) \cap store = {}

\* process_dataset has returned for an id outside the registry
C7_Witness ==
    \E j \in ProcJobs :
        /\ pjob[j].pc = "done"
        /\ pjob[j].ds \notin Registry
        /\ pjob[j].raisedIn = "config"

\* C8: in the sequence of status values one invocation of process_dataset or
\* of either training path writes, no 'pending', 'processing' or 'training'
\* comes after a 'completed' or 'failed'.
C8_NoBackwardStatus ==
    LET Forward(w) ==
            \A i \in 1..Len(w), k \in 1..Len(w) :
                (i < k /\ w[i] \in {"completed", "failed"})
                    => w[k] \notin {"pending", "processing", "training"}
    IN  /\ \A j \in ProcJobs : Forward(pjob[j].writes)
        /\ Forward(tjob.writes)
        /\ Forward(ctask.writes)

\* a processing job has failed after 'processing' and the queued task has
\* completed after 'training'
C8_Witness ==
    /\ pjob["p1"].pc = "done"
    /\ pjob["p1"].writes = <<"processing", "failed">>
    /\ ctask.pc = "done"
    /\ ctask.writes = <<"training", "completed">>

\* C9: every scratch directory that exists belongs to an invocation of
\* process_dataset, train_model or generate_explanation that has not yet
\* returned; a returned invocation, succeeded or failed, has left none.
C9_ScratchRemoved ==
    \A dir \in scratch :
        \/ \E j \in ProcJobs : pjob[j].inv = dir /\ ~Free(pjob[j])
        \/ tjob.inv = dir /\ ~Free(tjob)
        \/ ejob.inv = dir /\ ~Free(ejob)

\* a processing job and a training run have succeeded and an explanation
\* job has failed after creating its directory; all three have returned
C9_Witness ==
    /\ pjob["p1"].pc = "done" /\ pjob["p1"].result = "success"
    /\ tjob.pc = "done" /\ tjob.result = "success"
    /\ ejob.pc = "done" /\ ejob.result = "raised"
    /\ ejob.raisedIn \in {"test_split", "method", "artifact", "attribution"}
    /\ scratch = {}

\* C10: the step of train_model in which the automatic SHAP explanation
\* fails still returns the success result, and leaves the completed Model
\* row and the Metrics table as they were.
C10_ShapFailureHarmless ==
    [][(tjob.pc = "shap" /\ tjob'.pc = "done" /\ tjob'.shap # "ok") =>
          /\ tjob'.result = "success"
          /\ tjob.mid \in DOMAIN models
          /\ models[tjob.mid].status = "completed"
          /\ models' = models
          /\ metrics' = metrics]_vars

\* a training run has returned success although its SHAP step failed
C10_Witness ==
    /\ tjob.pc = "done"
    /\ tjob.shap \in {"failed", "save_failed"}
    /\ tjob.result = "success"
    /\ tjob.mid \in DOMAIN models
    /\ HasMetrics(metrics, tjob.mid)

C12_ChecksDownloadResult ==
    /\ ejob.pc = "compute" => ejob.files = LocalFiles
    /\ (ejob.pc = "done" /\ ejob.raisedIn \notin {"none", "model", "dataset"}
                         /\ ejob.files # LocalFiles) =>
          ejob.raisedIn \in {"artifact", "test_split"}

\* C13: a completed record written by generate_explanation for a request of
\* s rows on a test split of n rows has sample_size s when s <= n and n
\* otherwise, and the record of the automatic SHAP explanation has at most n.
C13_SampleClamped ==
    /\ (ejob.pc = "done" /\ ejob.result = "success"
                         /\ ejob.eid \in DOMAIN explanations) =>
          explanations[ejob.eid].sample_size =
              IF ejob.sample_size <= TestRows THEN ejob.sample_size ELSE TestRows
    /\ \A e \in DOMAIN explanations :
          explanations[e].status = "completed" =>
              /\ explanations[e].sample_size <= TestRows
              /\ explanations[e].sample_size >= 1

\* a request for more rows than the test split has completed with the
\* split's row count
C13_Witness ==
    /\ ejob.pc = "done" /\ ejob.result = "success"
    /\ ejob.sample_size > TestRows
    /\ ejob.eid \in DOMAIN explanations
    /\ explanations[ejob.eid].sample_size = TestRows

Evaluated == qjob.pc = "done" /\ qjob.result = "success"
                              /\ qjob.engine = "service"

InUnitInterval(x) == Leq(Zero, x) /\ Leq(x, One)

\* C16: in every quality evaluation result, faithfulness, robustness,
\* complexity and overall quality each lie in the closed interval [0,1],
\* for every feature-importance map and model output the evaluation accepts.
C16_ScoresInUnitInterval ==
    Evaluated =>
        /\ InUnitInterval(qjob.faithfulness.score)
        /\ InUnitInterval(qjob.robustness.score)
        /\ InUnitInterval(qjob.complexity.score)
        /\ InUnitInterval(qjob.overall_quality)

OneNonzero(imp) == Cardinality({i \in 1..Len(imp) : imp[i] # 0}) = 1

\* C17 (as stated): for a feature-importance map in which exactly one
\* feature has nonzero weight, the complexity computation yields
\* effective_features = 1 and a Gini coefficient of 1.0.
C17_GiniIsOne ==
    (Evaluated /\ OneNonzero(qjob.importance)) =>
        /\ qjob.complexity.effective_features = 1
        /\ qjob.complexity.gini_coefficient = One

\* C17 (amended): for a feature-importance map of n features in which
\* exactly one has nonzero weight, the complexity computation yields
\* effective_features = 1 and a Gini coefficient of (n - 1)/n.
C17_GiniOfOneNonzero ==
    (Evaluated /\ OneNonzero(qjob.importance)) =>
        /\ qjob.complexity.effective_features = 1
        /\ qjob.complexity.gini_coefficient =
               Frac(Len(qjob.importance) - 1, Len(qjob.importance))

C17_Witness ==
    /\ Evaluated
    /\ OneNonzero(qjob.importance)
    /\ Len(qjob.importance) = 3
    /\ qjob.importance[1] # 0
    /\ qjob.complexity.effective_features = 1
    /\ qjob.complexity.gini_coefficient = Frac(2, 3)

\* C18 (as stated): the reported overall quality always equals
\* 0.4 faithfulness + 0.3 robustness + 0.3 (1 - sparsity component),
\* computed from the sub-scores reported alongside it (for the Quantus
\* evaluation: monotonicity, stability and sparsity).
C18_OverallUsesSparsityComplement ==
    (qjob.pc = "done" /\ qjob.result = "success") =>
        LET f == IF qjob.engine = "service" THEN qjob.faithfulness.score
                 ELSE qjob.faithfulness.monotonicity
            r == IF qjob.engine = "service" THEN qjob.robustness.score
                 ELSE qjob.robustness.stability
        IN qjob.overall_quality =
               Add(Add(Mul(Frac(4, 10), f), Mul(Frac(3, 10), r)),
                   Mul(Frac(3, 10), Sub(One, qjob.complexity.sparsity)))

\* C18 (amended): the overall quality reported by the quality service
\* equals 0.4 faithfulness + 0.3 robustness + 0.3 complexity, computed from
\* the three sub-scores reported alongside it (not a number when one of
\* them is not); the Quantus evaluation reports
\* 0.4 monotonicity + 0.3 stability + 0.3 (1 - sparsity).
C18_OverallFromReportedScores ==
    (qjob.pc = "done" /\ qjob.result = "success") =>
        IF qjob.engine = "service"
        THEN qjob.overall_quality =
                 Add(Add(Mul(Frac(4, 10), qjob.faithfulness.score),
                         Mul(Frac(3, 10), qjob.robustness.score)),
                     Mul(Frac(3, 10), qjob.complexity.score))
        ELSE qjob.overall_quality =
                 Add(Add(Mul(Frac(4, 10), qjob.faithfulness.monotonicity),
                         Mul(Frac(3, 10), qjob.robustness.stability)),
                     Mul(Frac(3, 10), Sub(One, qjob.complexity.sparsity)))

C18_Witness ==
    /\ Evaluated
    /\ qjob.faithfulness.description = "ok"
    /\ qjob.robustness.description = "ok"
    /\ qjob.complexity.description = "ok"
    /\ ~IsNaN(qjob.overall_quality)
    /\ qjob.complexity.score # Sub(One, qjob.complexity.sparsity)

\* C19: on any numerical failure inside a sub-score computation (an empty
\* or all-zero importance map among them) that sub-score takes its fixed
\* fallback constant instead of an error or a non-numeric value, so that
\* every accepted input yields a result made of numbers.
C19_FallbackOnNumericalFailure ==
    Evaluated =>
        /\ ~IsNaN(qjob.faithfulness.score)
        /\ ~IsNaN(qjob.robustness.score)
        /\ ~IsNaN(qjob.complexity.score)
        /\ ~IsNaN(qjob.overall_quality)
        /\ (SumN(qjob.importance) = 0 =>
               qjob.complexity = ComplexityFallback)

\* C20: split on n rows with ratios (r_train, r_val, r_test) returns a
\* train split of floor(n r_train) rows, a val split of floor(n r_val) rows
\* and a test split holding the remaining n - train - val rows; the three
\* splits are pairwise disjoint and together contain every input row
\* exactly once.
C20_SplitSizesAndPartition ==
    sjob.pc = "done" =>
        /\ Len(sjob.train) = (sjob.n * sjob.ratios.train.pct) \div 100
        /\ Len(sjob.val) = (sjob.n * sjob.ratios.val.pct) \div 100
        /\ Len(sjob.test) = sjob.n - Len(sjob.train) - Len(sjob.val)
        /\ Range(sjob.train) \cap Range(sjob.val) = {}
        /\ Range(sjob.train) \cap Range(sjob.test) = {}
        /\ Range(sjob.val) \cap Range(sjob.test) = {}
        /\ Range(sjob.train) \cup Range(sjob.val) \cup Range(sjob.test)
               = 1..sjob.n
        /\ Len(sjob.train) + Len(sjob.val) + Len(sjob.test) = sjob.n

\* C21: for every stored model id, dal.get_model(id) and
\* dal.get_model(id + "_metrics") both return a record, and the two records
\* have the same id.
C21_SuffixHandling ==
    \A i \in 1..Len(mtab.rows) :
        LET id == mtab.rows[i]
            model1 == dal_get_model(mtab.rows, id)
            model2 == dal_get_model(mtab.rows, Append(id, MetricsSuffix))
        IN /\ model1 # None
           /\ model2 # None
           /\ model1 = model2
           /\ (mtab.q \in {id, Append(id, MetricsSuffix)} =>
                   mtab.found # None)

\* C30: the metadata client's get_model(model_id) returns the record whose
\* id equals model_id whenever such a record exists, even when another
\* stored model's id begins with model_id; it returns a different model
\* only when no exact match exists.
C30_ExactMatchFirst ==
    /\ \A i \in 1..Len(mtab.rows) :
          db_get_model(mtab.rows, mtab.rows[i]) = mtab.rows[i]
    /\ \A i \in 1..Len(mtab.rows) :
          mtab.q = mtab.rows[i] => mtab.found = mtab.rows[i]

\* C22: when two jobs operate concurrently on the same dataset id, every
\* status write that reaches the metadata store is applied whatever the
\* stored status is (nothing rejects, version-checks or serializes it), so
\* the stored status is that of the most recent write, and one job's write
\* can replace the other job's terminal status.
C22_LastWriteWins ==
    [][\A j \in ProcJobs :
          (/\ Len(pjob'[j].writes) = Len(pjob[j].writes) + 1
           /\ pjob'[j].ack)
              => /\ pjob[j].ds \in DOMAIN datasets'
                 /\ datasets'[pjob[j].ds].status =
                        pjob'[j].writes[Len(pjob'[j].writes)]]_vars

\* job p1 has completed dataset d1 and job p2, scheduled for the same
\* dataset, has then written 'processing' over 'completed'
C22_Witness ==
    /\ pjob["p1"].ds = "d1" /\ pjob["p2"].ds = "d1"
    /\ pjob["p1"].pc = "done"
    /\ pjob["p1"].writes = <<"processing", "completed">>
    /\ pjob["p1"].ack
    /\ pjob["p2"].writes = <<"processing">>
    /\ pjob["p2"].ack
    /\ "d1" \in DOMAIN datasets
    /\ datasets["d1"].status = "processing"

\* the directory a request works in
ServeDir(frame) ==
    IF frame.kind = "local" THEN LocalDir(frame.q, frame.idx)
    ELSE EvalDir(frame.eid)

\* C23: when the wait for a local explanation (30 s) or for a quality
\* evaluation (60 s) times out, the caller is answered with the timeout
\* error while the computation is left where it was, neither cancelled nor
\* ended, and goes on from there; whatever it does afterwards, the answer
\* stays the timeout error.
C23_TimeoutLeavesComputation ==
    [][\A j \in ServeJobs :
          /\ (req[j].response = "none" /\ req'[j].response = "timeout") =>
                /\ req[j].pc \notin {"idle", "done"}
                /\ req'[j].pc = req[j].pc
                /\ req'[j].result = req[j].result
          /\ (req[j].response = "timeout" /\ ~Answered(req[j])) =>
                req'[j].response = "timeout"]_vars

\* a local explanation and a quality evaluation that both ran to a result
\* after their callers had been answered with the timeout error
C23_Witness ==
    \E j \in ServeJobs, k \in ServeJobs :
       /\ req[j].kind = "local" /\ req[k].kind = "eval"
       /\ req[j].response = "timeout" /\ req[k].response = "timeout"
       /\ req[j].pc = "done" /\ req[k].pc = "done"
       /\ req[j].result = "success" /\ req[k].result = "success"

C26_NoInterference ==
    \A j \in ServeJobs :
       \A file \in req[j].fetched : <<ServeDir(req[j]), file>> \in tmp

\* C25: once the status of a Dataset is 'completed', no preprocess trigger
\* and no step of a background job it scheduled, two jobs scheduled before
\* either finished included, changes it to 'processing' or 'failed'.
C25_CompletedIsStable ==
    [][\A d \in DOMAIN datasets :
          datasets[d].status = "completed" =>
             datasets'[d].status \notin {"processing", "failed"}]_vars

\* C28: when an invocation of process_dataset returns, with its result or
\* with the error dict, the Dataset row it worked on has status 'completed'
\* or 'failed', also when a status write was rejected by the metadata store.
C28_ReturnLeavesTerminalStatus ==
    [][\A j \in ProcJobs :
          (/\ pjob[j].pc \in {"finish", "except"}
           /\ pjob'[j].pc = "done"
           /\ pjob[j].ds \in DOMAIN datasets)
          => datasets'[pjob[j].ds].status \in {"completed", "failed"}]_vars

\* C29: after a deletion of a model has reported success, no Explanation row
\* and no model_metrics row with that model id is left in the metadata
\* store, also when one of the deletion steps failed; and every stored
\* Explanation has the id of a stored Model.
C29_DeleteLeavesNoOrphans ==
    /\ djob.response = "success" =>
          /\ \A e \in DOMAIN explanations :
                explanations[e].model_id # djob.base
          /\ \A r \in metrics : r.model_id # djob.base
    /\ \A e \in DOMAIN explanations :
          explanations[e].model_id \in DOMAIN models

\* C27: in the queued explanation tasks, a status entry that has been set
\* to 'processing' is eventually 'completed' or 'failed', the task having
\* run to its return, also when it ended with an exception.
C27_ProcessingEnds ==
    \A key \in {ExplanationKey(eid) : eid \in QueuedExplanations}
                  \cup {EvalKey(ev) : ev \in QueuedEvaluations} :
       (key \in DOMAIN redis /\ redis[key] = "processing")
          ~> (key \in DOMAIN redis /\ redis[key] \in {"completed", "failed"})

====
